---------------------------- MODULE Spec2Model ----------------------------
(***************************************************************************)
(* A model of the tokenizer pipeline of Greynir (src/tokenizer.py).        *)
(*                                                                         *)
(* Every generator stage is a state machine over its own variables: the    *)
(* part of the upstream token stream it has not pulled yet, the tokens it  *)
(* has yielded so far, its position (pc) and its locals.  One action is    *)
(* one pass through the generator's loop body (or its prologue/epilogue).  *)
(* Pure functions (roman_to_int, is_valid_date, parse_digits,              *)
(* compound_error) are operators.                                          *)
(*                                                                         *)
(* Strings are sequences of one-character strings; Python values of        *)
(* dynamic type (token payloads and error fields) are records of one       *)
(* uniform shape, see PyNone .. PyList.                                    *)
(***************************************************************************)
EXTENDS Integers, Sequences, FiniteSets, TLC

(***************************************************************************)
(* Bounds of the model                                                     *)
(***************************************************************************)
\* longest token sequence fed to parse_sentences
MaxSentLen == 4

\* the longest text given to parse_tokens, in characters
MaxTextLen == 4

\* the longest token sequence given to parse_particles
MaxPartLen == 3

\* the largest integer whose canonical Roman numeral is tried
MaxRomanValue == 3999

\* the largest number of pieces (digit groups and separators) of a lexeme
\* given to parse_digits
MaxDigitsParts == 5

\* the longest lexeme given to parse_digits, in characters
MaxDigitsLen == 8

\* longest token sequence fed to the phrase passes
MaxPhrLen == 3

\* longest token sequence fed to parse_static_phrases alone
MaxStaticLen == 4

\* longest token sequence fed to recognize_entities
MaxEntLen == 4

\* most calls the body of a with statement makes on its session
MaxBodyOps == 2

\* longest token sequence relayed by test and test_2
MaxRelayLen == 3

\* the tokens the source of a chain of generators yields, at most
MaxReleaseItems == 2

\* the longest sentence body given to annotate and parse_phrases_2
MaxNameLen == 3

\* the longest sentence body given to parse_errors_1
MaxErrLen == 4

\* longest token sequence fed to disambiguate_phrases
MaxAmbigLen == 4

(***************************************************************************)
(* Generic helpers                                                         *)
(***************************************************************************)
SeqsUpTo(S, n) == UNION { [1..k -> S] : k \in 0..n }

Last(s) == s[Len(s)]

RECURSIVE Flatten(_)
Flatten(ss) == IF ss = <<>> THEN <<>> ELSE Head(ss) \o Flatten(Tail(ss))

(***************************************************************************)
(* Python values.  t is the type tag; n/d hold a number (d = 1 for int),   *)
(* s the characters of a str, l the items of a list or tuple.              *)
(***************************************************************************)
PyNone == [t |-> "None", n |-> 0, d |-> 1, s |-> <<>>, l |-> <<>>]

PyInt(k) == [t |-> "int", n |-> k, d |-> 1, s |-> <<>>, l |-> <<>>]

RECURSIVE GCD(_, _)
GCD(a, b) == IF b = 0 THEN a ELSE GCD(b, a % b)

\* a float, held exactly as the fraction num/den in lowest terms (den > 0)
PyFloat(num, den) ==
    LET g == GCD(IF num < 0 THEN -num ELSE num, den)
    IN  [t |-> "float", n |-> num \div g, d |-> den \div g, s |-> <<>>, l |-> <<>>]

\* a == b for two numbers (an int equals the float of the same value)
PyNumEq(a, b) == a.n * b.d = b.n * a.d

PyStr(chars) == [t |-> "str", n |-> 0, d |-> 1, s |-> chars, l |-> <<>>]

PyList(items) == [t |-> "list", n |-> 0, d |-> 1, s |-> <<>>, l |-> items]

PyTuple(items) == [t |-> "tuple", n |-> 0, d |-> 1, s |-> <<>>, l |-> items]

\* Python truthiness: bool(v)
Truthy(v) ==
    CASE v.t = "None" -> FALSE
      [] v.t \in {"int", "float"} -> v.n # 0
      [] v.t = "str" -> v.s # <<>>
      [] OTHER -> v.l # <<>>

\* a list all of whose items are ints: the shape the error field should have
IsFlatIntList(v) == v.t = "list" /\ \A i \in 1..Len(v.l) : v.l[i].t = "int"

(***************************************************************************)
(* Tokens: Tok = namedtuple('Tok', ['kind', 'txt', 'val', 'error'])        *)
(* src is a history field that is not in the program: the positions, in    *)
(* the stage's input, of the tokens this token was made from.              *)
(***************************************************************************)
\* txt of a token whose txt is None
NoneTxt == <<"None">>

Tok(kind, txt, val, error) ==
    [kind |-> kind, txt |-> txt, val |-> val, error |-> error, src |-> <<>>]

\* the value None in a variable that otherwise holds a token
NoToken == Tok("None", NoneTxt, PyNone, PyNone)

Begin_Paragraph == Tok("P_BEGIN", NoneTxt, PyNone, PyList(<<>>))

End_Paragraph == Tok("P_END", NoneTxt, PyNone, PyList(<<>>))

Begin_Sentence == Tok("S_BEGIN", NoneTxt, PyTuple(<<PyInt(0), PyNone>>), PyList(<<>>))

End_Sentence == Tok("S_END", NoneTxt, PyNone, PyList(<<>>))

\* Characters outside ASCII are written by name: bdquo, sbquo, laquo, raquo,
\* ldquo, rdquo, lsquo, rsquo, rsquohigh (U+201B), hellip, ndash, mdash,
\* euro, deg, copy, acute.
LEFT_PUNCTUATION == { "(", "[", "bdquo", "sbquo", "laquo", "#", "$", "euro", "<", "deg" }

RIGHT_PUNCTUATION ==
    { ".", ",", ":", ";", ")", "]", "!", "%", "?", "ldquo", "raquo", "rdquo", "rsquo",
      "rsquohigh", "lsquo", "hellip", ">", "ndash" }

CENTER_PUNCTUATION == { "\"", "*", "&", "+", "=", "@", "copy", "|", "mdash" }

NONE_PUNCTUATION == { "-", "/", "'", "~", "lsquo", "\\" }

PUNCTUATION ==
    LEFT_PUNCTUATION \cup CENTER_PUNCTUATION \cup RIGHT_PUNCTUATION \cup NONE_PUNCTUATION

TP_LEFT == 1

TP_CENTER == 2

TP_RIGHT == 3

TP_NONE == 4

Punctuation(w, error) ==
    LET tp == IF w = <<>> THEN TP_CENTER
              ELSE IF w[1] \in LEFT_PUNCTUATION THEN TP_LEFT
              ELSE IF w[1] \in RIGHT_PUNCTUATION THEN TP_RIGHT
              ELSE IF w[1] \in NONE_PUNCTUATION THEN TP_NONE
              ELSE TP_CENTER
    IN  Tok("PUNCTUATION", w, PyInt(tp), error)

Word(w, m, error) == Tok("WORD", w, m, error)

Time(w, h, m, sec, error) == Tok("TIME", w, PyTuple(<<h, m, sec>>), error)

Date(w, y, m, d, error) == Tok("DATE", w, PyTuple(<<y, m, d>>), error)

Dateabs(w, y, m, d, error) == Tok("DATEABS", w, PyTuple(<<y, m, d>>), error)

Daterel(w, y, m, d, error) == Tok("DATEREL", w, PyTuple(<<y, m, d>>), error)

Timestampabs(w, y, mo, d, h, m, sec, error) ==
    Tok("TIMESTAMPABS", w, PyTuple(<<y, mo, d, h, m, sec>>), error)

Timestamprel(w, y, mo, d, h, m, sec, error) ==
    Tok("TIMESTAMPREL", w, PyTuple(<<y, mo, d, h, m, sec>>), error)

Year(w, n, error) == Tok("YEAR", w, n, error)

Telno(w, error) == Tok("TELNO", w, PyNone, error)

\* TOK.Number(w, n, cases, genders, error)
Number(w, n, cases, genders, error) == Tok("NUMBER", w, PyTuple(<<n, cases, genders>>), error)

\* TOK.Amount(w, iso, n, cases, genders, error)
Amount(w, iso, n, cases, genders, error) ==
    Tok("AMOUNT", w, PyTuple(<<n, PyStr(iso), cases, genders>>), error)

Measurement(w, si, n, error) == Tok("MEASUREMENT", w, PyTuple(<<PyStr(si), n>>), error)

Percent(w, n, cases, genders, error) == Tok("PERCENT", w, PyTuple(<<n, cases, genders>>), error)

Ordinal(w, n, error) == Tok("ORDINAL", w, n, error)

Unknown(w, error) == Tok("UNKNOWN", w, PyNone, error)

\* Characters outside ASCII are written by name: "hellip" is the ellipsis,
\* "ldquo9" the low opening quote, "ldquo" the left double quote (the Icelandic
\* closing quote), "rdquo" the right double quote, "lsquo9" the low single
\* quote, "lsquo" the left single quote, "rsquo" the right single quote,
\* "raquo" the right guillemet, "endash" and "emdash" the dashes, "euro" the
\* euro sign; "aacute", "eth", "thorn" ... are the Icelandic letters.
END_OF_SENTENCE == { <<".">>, <<"?">>, <<"!">>, <<"[", "hellip", "]">> }

SENTENCE_FINISHERS ==
    { <<")">>, <<"]">>, <<"ldquo">>, <<"raquo">>, <<"rdquo">>, <<"rsquo">>, <<"\"">>,
      <<"[", "hellip", "]">> }

(***************************************************************************)
(* Characters and strings                                                  *)
(***************************************************************************)
DIGITS == {"0", "1", "2", "3", "4", "5", "6", "7", "8", "9"}

DigitChars == <<"0", "1", "2", "3", "4", "5", "6", "7", "8", "9">>

\* int(c) for one digit character
DigitValue(c) == (CHOOSE i \in 1..10 : DigitChars[i] = c) - 1

\* the string is all digits: int(chars) does not raise ValueError
IsDigits(chars) == chars # <<>> /\ \A i \in 1..Len(chars) : chars[i] \in DIGITS

\* int(chars) for a string of digits
RECURSIVE StrToInt(_)
StrToInt(chars) ==
    IF chars = <<>> THEN 0
    ELSE 10 * StrToInt(SubSeq(chars, 1, Len(chars) - 1)) + DigitValue(Last(chars))

\* the Python slice w[a:b] (0-based, b exclusive, clipped to the string)
Slice(w, a, b) ==
    LET hi == IF b > Len(w) THEN Len(w) ELSE b
    IN  IF a >= hi THEN <<>> ELSE SubSeq(w, a + 1, hi)

\* w[a:]
SliceFrom(w, a) == Slice(w, a, Len(w))

\* w.split(sep) for a one-character separator
RECURSIVE Split(_, _)
Split(w, sep) ==
    IF \A i \in 1..Len(w) : w[i] # sep THEN <<w>>
    ELSE LET k == CHOOSE i \in 1..Len(w) : w[i] = sep /\ \A j \in 1..(i - 1) : w[j] # sep
         IN  <<SubSeq(w, 1, k - 1)>> \o Split(SubSeq(w, k + 1, Len(w)), sep)

\* re.sub(c, '', w)
RECURSIVE RemoveChar(_, _)
RemoveChar(w, c) ==
    IF w = <<>> THEN <<>>
    ELSE (IF Head(w) = c THEN <<>> ELSE <<Head(w)>>) \o RemoveChar(Tail(w), c)

\* re.sub(a, b, w)
ReplaceChar(w, a, b) == [i \in 1..Len(w) |-> IF w[i] = a THEN b ELSE w[i]]

(***************************************************************************)
(* Regular expressions, as re.match applies them: a backtracking matcher   *)
(* anchored at the start of the string.  ReEnds lists the offsets at which *)
(* a match can end in the order in which backtracking finds them (greedy   *)
(* repetition tries more repetitions first, alternation its left branch    *)
(* first), so the first is the match Python returns.                       *)
(***************************************************************************)
ReClass(set) == [op |-> "cls", set |-> set]

\* [^...]
ReNotClass(set) == [op |-> "ncls", set |-> set]

ReLit(c) == [op |-> "cls", set |-> {c}]

ReEnd == [op |-> "end"]

ReCat(parts) == [op |-> "cat", parts |-> parts]

ReAlt(alts) == [op |-> "alt", alts |-> alts]

\* r{min,max}; max = -1 is unbounded
ReRep(r, min, max) == [op |-> "rep", re |-> r, min |-> min, max |-> max]

ReDigit == ReClass(DIGITS)

RECURSIVE ReEnds(_, _, _), ReThen(_, _, _), ReAny(_, _, _)
ReEnds(re, w, i) ==
    CASE re.op = "cls" -> IF i < Len(w) /\ w[i + 1] \in re.set THEN <<i + 1>> ELSE <<>>
      [] re.op = "ncls" -> IF i < Len(w) /\ w[i + 1] \notin re.set THEN <<i + 1>> ELSE <<>>
      [] re.op = "end" -> IF i = Len(w) THEN <<i>> ELSE <<>>
      [] re.op = "cat" ->
            IF re.parts = <<>> THEN <<i>>
            ELSE ReThen(ReEnds(Head(re.parts), w, i), ReCat(Tail(re.parts)), w)
      [] re.op = "alt" -> ReAny(re.alts, w, i)
      [] re.op = "rep" ->
            (IF re.max = 0 THEN <<>>
             ELSE ReThen(ReEnds(re.re, w, i),
                         ReRep(re.re, IF re.min > 0 THEN re.min - 1 ELSE 0,
                               IF re.max > 0 THEN re.max - 1 ELSE re.max), w))
            \o (IF re.min = 0 THEN <<i>> ELSE <<>>)

\* the ends of re from each of the offsets 'ends', in order
ReThen(ends, re, w) ==
    IF ends = <<>> THEN <<>>
    ELSE ReEnds(re, w, Head(ends)) \o ReThen(Tail(ends), re, w)

\* the ends of each alternative, in order
ReAny(alts, w, i) ==
    IF alts = <<>> THEN <<>>
    ELSE ReEnds(Head(alts), w, i) \o ReAny(Tail(alts), w, i)

\* re.match(re, w): the offset where the match ends, or -1 for None
ReMatch(re, w) ==
    LET ends == ReEnds(re, w, 0)
    IN  IF ends = <<>> THEN -1 ELSE Head(ends)

(***************************************************************************)
(* Roman numerals                                                          *)
(***************************************************************************)
\* ^M{0,4}(CM|CD|D?C{0,3})(XC|XL|L?X{0,3})(IX|IV|V?I{0,3})$
RomanGroup(nine, four, five, one) ==
    ReAlt(<<ReCat(<<ReLit(one), ReLit(nine)>>),
            ReCat(<<ReLit(one), ReLit(four)>>),
            ReCat(<<ReRep(ReLit(five), 0, 1), ReRep(ReLit(one), 0, 3)>>)>>)

RE_ROMAN_NUMERAL ==
    ReCat(<<ReRep(ReLit("M"), 0, 4),
            RomanGroup("M", "D", "D", "C"),
            RomanGroup("C", "L", "L", "X"),
            RomanGroup("X", "V", "V", "I"),
            ReEnd>>)

\* ROMAN_NUMERAL_MAP without the pair (900, 'CM')
ROMAN_NUMERAL_MAP_without_CM ==
    << [integer |-> 1000, numeral |-> <<"M">>],
       [integer |-> 500, numeral |-> <<"D">>],
       [integer |-> 400, numeral |-> <<"C", "D">>],
       [integer |-> 100, numeral |-> <<"C">>],
       [integer |-> 90, numeral |-> <<"X", "C">>],
       [integer |-> 50, numeral |-> <<"L">>],
       [integer |-> 40, numeral |-> <<"X", "L">>],
       [integer |-> 10, numeral |-> <<"X">>],
       [integer |-> 9, numeral |-> <<"I", "X">>],
       [integer |-> 5, numeral |-> <<"V">>],
       [integer |-> 4, numeral |-> <<"I", "V">>],
       [integer |-> 1, numeral |-> <<"I">>] >>

ROMAN_NUMERAL_MAP ==
    << [integer |-> 1000, numeral |-> <<"M">>],
       [integer |-> 900, numeral |-> <<"C", "M">>],
       [integer |-> 500, numeral |-> <<"D">>],
       [integer |-> 400, numeral |-> <<"C", "D">>],
       [integer |-> 100, numeral |-> <<"C">>],
       [integer |-> 90, numeral |-> <<"X", "C">>],
       [integer |-> 50, numeral |-> <<"L">>],
       [integer |-> 40, numeral |-> <<"X", "L">>],
       [integer |-> 10, numeral |-> <<"X">>],
       [integer |-> 9, numeral |-> <<"I", "X">>],
       [integer |-> 5, numeral |-> <<"V">>],
       [integer |-> 4, numeral |-> <<"I", "V">>],
       [integer |-> 1, numeral |-> <<"I">>] >>

\* the loops of roman_to_int from numeral k of the map on, at offset i:
\* the offset and the sum when the for loop ends
RECURSIVE RomanScan(_, _, _, _)
RomanScan(s, i, k, result) ==
    IF k > Len(ROMAN_NUMERAL_MAP) THEN [i |-> i, result |-> result]
    ELSE LET numeral == ROMAN_NUMERAL_MAP[k].numeral
         IN  IF Slice(s, i, i + Len(numeral)) = numeral
             THEN RomanScan(s, i + Len(numeral), k, result + ROMAN_NUMERAL_MAP[k].integer)
             ELSE RomanScan(s, i, k + 1, result)

\* roman_to_int(s): ok is the assertion i == len(s)
roman_to_int(s) ==
    LET r == RomanScan(s, 0, 1, 0)
    IN  [ok |-> r.i = Len(s), result |-> r.result]


(***************************************************************************)
(* is_valid_date and parse_digits                                          *)
(***************************************************************************)
IsLeapYear(y) == (y % 4 = 0 /\ y % 100 # 0) \/ y % 400 = 0

\* the days of month m of year y, as datetime.datetime checks them
DaysInMonth(y, m) ==
    CASE m = 2 -> IF IsLeapYear(y) THEN 29 ELSE 28
      [] m \in {4, 6, 9, 11} -> 30
      [] OTHER -> 31

is_valid_date(y, m, d) ==
    /\ 1776 <= y /\ y <= 2100
    /\ 1 <= m /\ m <= 12
    /\ 1 <= d /\ d <= 31
    /\ d <= DaysInMonth(y, m)

RECURSIVE Pow10(_)
Pow10(k) == IF k = 0 THEN 1 ELSE 10 * Pow10(k - 1)

\* float(chars) for digits '.' digits
FloatOf(chars) ==
    LET p == Split(chars, ".")
    IN  PyFloat(StrToInt(p[1] \o p[2]), Pow10(Len(p[2])))

ReDigits1 == ReRep(ReDigit, 1, -1)

\* \d{1,2}:\d\d:\d\d
RE_HMS == ReCat(<<ReRep(ReDigit, 1, 2), ReLit(":"), ReDigit, ReDigit, ReLit(":"),
                  ReDigit, ReDigit>>)

\* \d{1,2}:\d\d
RE_HM == ReCat(<<ReRep(ReDigit, 1, 2), ReLit(":"), ReDigit, ReDigit>>)

\* \d{1,2}\.\d{1,2}\.\d{2,4} and \d{1,2}/\d{1,2}/\d{2,4}
RE_DMY(sep) == ReCat(<<ReRep(ReDigit, 1, 2), ReLit(sep), ReRep(ReDigit, 1, 2), ReLit(sep),
                       ReRep(ReDigit, 2, 4)>>)

\* (sep \d\d\d)
ReGroup3(sep) == ReCat(<<ReLit(sep), ReDigit, ReDigit, ReDigit>>)

\* \d+(\.\d\d\d)*,\d+
RE_DECIMAL_COMMA == ReCat(<<ReDigits1, ReRep(ReGroup3("."), 0, -1), ReLit(","), ReDigits1>>)

\* \d+(\.\d\d\d)+
RE_DOT_THOUSANDS == ReCat(<<ReDigits1, ReRep(ReGroup3("."), 1, -1)>>)

\* \d{1,2}/\d{1,2}
RE_DM == ReCat(<<ReRep(ReDigit, 1, 2), ReLit("/"), ReRep(ReDigit, 1, 2)>>)

\* \d\d\d\d$ or \d\d\d\d[^\d]
RE_YEAR == ReAlt(<<ReCat(<<ReDigit, ReDigit, ReDigit, ReDigit, ReEnd>>),
                   ReCat(<<ReDigit, ReDigit, ReDigit, ReDigit, ReNotClass(DIGITS)>>)>>)

\* \d\d\d-\d\d\d\d
RE_TELNO == ReCat(<<ReDigit, ReDigit, ReDigit, ReLit("-"), ReDigit, ReDigit, ReDigit, ReDigit>>)

\* \d\d\d\d\d\d\d
RE_TELNO7 == ReRep(ReDigit, 7, 7)

\* \d+\.\d+(\.\d+)+
RE_CHAPTER == ReCat(<<ReDigits1, ReLit("."), ReDigits1,
                      ReRep(ReCat(<<ReLit("."), ReDigits1>>), 1, -1)>>)

\* \d+(,\d\d\d)*\.\d+
RE_DECIMAL_POINT == ReCat(<<ReDigits1, ReRep(ReGroup3(","), 0, -1), ReLit("."), ReDigits1>>)

\* \d+(,\d\d\d)*
RE_INTEGER == ReCat(<<ReDigits1, ReRep(ReGroup3(","), 0, -1)>>)

NoError == PyList(<<>>)

\* what parse_digits returns: (token, eaten)
Parsed(tok, eaten) == [tok |-> tok, eaten |-> eaten]

\* the last branches: thousands separators ',' and decimal point, integers
parse_digits_us(w) ==
    LET e1 == ReMatch(RE_DECIMAL_POINT, w)
        e2 == ReMatch(RE_INTEGER, w)
    IN  IF e1 >= 0
        THEN LET g == Slice(w, 0, e1)
                 n == RemoveChar(g, ",")
             IN  Parsed(Number(ReplaceChar(g, ".", ","), FloatOf(n), PyNone, PyNone, NoError), e1)
        ELSE IF e2 >= 0
        THEN LET g == Slice(w, 0, e2)
             IN  Parsed(Number(g, PyInt(StrToInt(RemoveChar(g, ","))), PyNone, PyNone, NoError), e2)
        ELSE Parsed(Unknown(w, NoError), Len(w))

\* years, telephone numbers and chapter numbers
parse_digits_year(w) ==
    LET ey == ReMatch(RE_YEAR, w)
        n == StrToInt(Slice(w, 0, 4))
        et == ReMatch(RE_TELNO, w)
        e7 == ReMatch(RE_TELNO7, w)
        ec == ReMatch(RE_CHAPTER, w)
    IN  IF ey >= 0 /\ 1776 <= n /\ n <= 2100
        THEN Parsed(Year(Slice(w, 0, 4), PyInt(n), NoError), 4)
        ELSE IF et >= 0
        THEN Parsed(Telno(Slice(w, 0, et), NoError), et)
        ELSE IF e7 >= 0
        THEN Parsed(Telno(Slice(w, 0, 3) \o <<"-">> \o Slice(w, 3, e7), NoError), e7)
        ELSE IF ec >= 0
        THEN Parsed(Ordinal(Slice(w, 0, ec),
                            PyInt(StrToInt(RemoveChar(Slice(w, 0, ec), "."))), NoError), ec)
        ELSE parse_digits_us(w)

\* D/M: a fraction or a date without a year
parse_digits_dm(w) ==
    LET e == ReMatch(RE_DM, w)
    IN  IF e >= 0 /\ (e >= Len(w) \/ w[e + 1] \notin DIGITS)
        THEN LET g == Slice(w, 0, e)
                 p == Split(g, "/")
                 m0 == StrToInt(p[2])
                 d0 == StrToInt(p[1])
                 swap == m0 > 12 /\ 12 >= d0
                 m == IF swap THEN d0 ELSE m0
                 d == IF swap THEN m0 ELSE d0
             IN  IF /\ p[1][1] # "0" /\ p[2][1] # "0"
                    /\ ((d0 <= 5 /\ m0 <= 6) \/ (d0 = 1 /\ m0 <= 10))
                 THEN Parsed(Number(g, PyFloat(d0, m0), PyNone, PyNone, NoError), e)
                 ELSE IF 1 <= d /\ d <= 31 /\ 1 <= m /\ m <= 12
                 THEN Parsed(Date(g, PyInt(0), PyInt(m), PyInt(d), NoError), e)
                 ELSE parse_digits_year(g)   \* w was rebound to s.group()
        ELSE parse_digits_year(w)

\* parse_digits_number without its first branch (the decimal comma)
parse_digits_number_no_decimal_comma(w) ==
    LET e2 == ReMatch(RE_DOT_THOUSANDS, w)
    IN  IF e2 >= 0
        THEN LET g == Slice(w, 0, e2)
             IN  Parsed(Number(g, PyInt(StrToInt(RemoveChar(g, "."))), PyNone, PyNone, NoError), e2)
        ELSE parse_digits_dm(w)

\* numbers with a decimal comma and '.' as the thousands separator
parse_digits_number(w) ==
    LET e1 == ReMatch(RE_DECIMAL_COMMA, w)
        e2 == ReMatch(RE_DOT_THOUSANDS, w)
    IN  IF e1 >= 0
        THEN LET g == Slice(w, 0, e1)
                 n == ReplaceChar(RemoveChar(g, "."), ",", ".")
             IN  Parsed(Number(g, FloatOf(n), PyNone, PyNone, NoError), e1)
        ELSE IF e2 >= 0
        THEN LET g == Slice(w, 0, e2)
             IN  Parsed(Number(g, PyInt(StrToInt(RemoveChar(g, "."))), PyNone, PyNone, NoError), e2)
        ELSE parse_digits_dm(w)

\* D.M.Y and D/M/Y
parse_digits_date(w) ==
    LET e1 == ReMatch(RE_DMY("."), w)
        e == IF e1 >= 0 THEN e1 ELSE ReMatch(RE_DMY("/"), w)
    IN  IF e >= 0
        THEN LET g == Slice(w, 0, e)
                 p == IF \E i \in 1..Len(g) : g[i] = "/" THEN Split(g, "/") ELSE Split(g, ".")
                 y0 == StrToInt(p[3])
                 y == IF y0 <= 99 THEN 2000 + y0 ELSE y0
                 m0 == StrToInt(p[2])
                 d0 == StrToInt(p[1])
                 swap == m0 > 12 /\ 12 >= d0
                 m == IF swap THEN d0 ELSE m0
                 d == IF swap THEN m0 ELSE d0
             IN  IF is_valid_date(y, m, d)
                 THEN Parsed(Date(g, PyInt(y), PyInt(m), PyInt(d), NoError), e)
                 ELSE parse_digits_number(g)   \* w was rebound to s.group()
        ELSE parse_digits_number(w)

\* H:M
parse_digits_hm(w) ==
    LET e == ReMatch(RE_HM, w)
        p == Split(Slice(w, 0, e), ":")
        h == StrToInt(p[1])
        m == StrToInt(p[2])
    IN  IF e >= 0
        THEN IF h < 24 /\ m < 60
             THEN Parsed(Time(Slice(w, 0, e), PyInt(h), PyInt(m), PyInt(0), NoError), e)
             ELSE parse_digits_date(Slice(w, 0, e))   \* w was rebound to s.group()
        ELSE parse_digits_date(w)

\* parse_digits(w), w starting with a digit; first H:M:S
parse_digits(w) ==
    LET e == ReMatch(RE_HMS, w)
        p == Split(Slice(w, 0, e), ":")
        h == StrToInt(p[1])
        m == StrToInt(p[2])
        sec == StrToInt(p[3])
    IN  IF e >= 0
        THEN IF h < 24 /\ m < 60 /\ sec < 60
             THEN Parsed(Time(Slice(w, 0, e), PyInt(h), PyInt(m), PyInt(sec), NoError), e)
             ELSE parse_digits_hm(Slice(w, 0, e))   \* w was rebound to s.group()
        ELSE parse_digits_hm(w)


(***************************************************************************)
(* Letters, case and the word tables                                       *)
(***************************************************************************)
\* Letters outside ASCII are written by name: aacute, eth, eacute, iacute,
\* oacute, uacute, yacute, thorn, aelig, ouml (and capitalised for upper case);
\* sup2, sup3, deg and mu are the signs of the SI units.
LowerLetters ==
    << "a", "b", "c", "d", "e", "f", "g", "h", "i", "j", "k", "l", "m", "n", "o", "p", "q",
       "r", "s", "t", "u", "v", "w", "x", "y", "z", "aacute", "eth", "eacute", "iacute",
       "oacute", "uacute", "yacute", "thorn", "aelig", "ouml", "mu" >>

UpperLetters ==
    << "A", "B", "C", "D", "E", "F", "G", "H", "I", "J", "K", "L", "M", "N", "O", "P", "Q",
       "R", "S", "T", "U", "V", "W", "X", "Y", "Z", "Aacute", "Eth", "Eacute", "Iacute",
       "Oacute", "Uacute", "Yacute", "Thorn", "AElig", "Ouml", "Mu" >>

\* c.isupper() and c.isalpha() for one character
IsUpperChar(c) == \E i \in 1..Len(UpperLetters) : UpperLetters[i] = c

IsLowerChar(c) == \E i \in 1..Len(LowerLetters) : LowerLetters[i] = c

IsAlphaChar(c) == IsUpperChar(c) \/ IsLowerChar(c)

\* w.isalpha(): not empty and all letters
isalpha(w) == w # <<>> /\ \A i \in 1..Len(w) : IsAlphaChar(w[i])

LowerChar(c) ==
    IF IsUpperChar(c)
    THEN LowerLetters[CHOOSE i \in 1..Len(UpperLetters) : UpperLetters[i] = c]
    ELSE c

\* w.lower()
Lower(w) == [i \in 1..Len(w) |-> LowerChar(w[i])]

\* c in w
HasChar(w, c) == \E i \in 1..Len(w) : w[i] = c

CLOCK_WORD == <<"k", "l", "u", "k", "k", "a", "n">>

CLOCK_ABBREV == <<"k", "l">>

\* MONTHS: the month names; the number of a month is its position
MONTHS ==
    << <<"j", "a", "n", "uacute", "a", "r">>,
       <<"f", "e", "b", "r", "uacute", "a", "r">>,
       <<"m", "a", "r", "s">>,
       <<"a", "p", "r", "iacute", "l">>,
       <<"m", "a", "iacute">>,
       <<"j", "uacute", "n", "iacute">>,
       <<"j", "uacute", "l", "iacute">>,
       <<"aacute", "g", "uacute", "s", "t">>,
       <<"s", "e", "p", "t", "e", "m", "b", "e", "r">>,
       <<"o", "k", "t", "oacute", "b", "e", "r">>,
       <<"n", "oacute", "v", "e", "m", "b", "e", "r">>,
       <<"d", "e", "s", "e", "m", "b", "e", "r">> >>

\* CLOCK_NUMBERS as (txt, [h, m, s]) pairs
CLOCK_NUMBERS ==
    { [txt |-> <<"e", "i", "t", "t">>, val |-> <<1, 0, 0>>],
      [txt |-> <<"t", "v", "ouml">>, val |-> <<2, 0, 0>>],
      [txt |-> <<"thorn", "r", "j", "uacute">>, val |-> <<3, 0, 0>>],
      [txt |-> <<"f", "j", "ouml", "g", "u", "r">>, val |-> <<4, 0, 0>>],
      [txt |-> <<"f", "i", "m", "m">>, val |-> <<5, 0, 0>>],
      [txt |-> <<"s", "e", "x">>, val |-> <<6, 0, 0>>],
      [txt |-> <<"s", "j", "ouml">>, val |-> <<7, 0, 0>>],
      [txt |-> <<"aacute", "t", "t", "a">>, val |-> <<8, 0, 0>>],
      [txt |-> <<"n", "iacute", "u">>, val |-> <<9, 0, 0>>],
      [txt |-> <<"t", "iacute", "u">>, val |-> <<10, 0, 0>>],
      [txt |-> <<"e", "l", "l", "e", "f", "u">>, val |-> <<11, 0, 0>>],
      [txt |-> <<"t", "oacute", "l", "f">>, val |-> <<12, 0, 0>>],
      [txt |-> <<"h", "aacute", "l", "f", "e", "i", "t", "t">>, val |-> <<12, 30, 0>>],
      [txt |-> <<"h", "aacute", "l", "f", "t", "v", "ouml">>, val |-> <<1, 30, 0>>],
      [txt |-> <<"h", "aacute", "l", "f", "thorn", "r", "j", "uacute">>, val |-> <<2, 30, 0>>],
      [txt |-> <<"h", "aacute", "l", "f", "f", "j", "ouml", "g", "u", "r">>, val |-> <<3, 30, 0>>],
      [txt |-> <<"h", "aacute", "l", "f", "f", "i", "m", "m">>, val |-> <<4, 30, 0>>],
      [txt |-> <<"h", "aacute", "l", "f", "s", "e", "x">>, val |-> <<5, 30, 0>>],
      [txt |-> <<"h", "aacute", "l", "f", "s", "j", "ouml">>, val |-> <<6, 30, 0>>],
      [txt |-> <<"h", "aacute", "l", "f", "aacute", "t", "t", "a">>, val |-> <<7, 30, 0>>],
      [txt |-> <<"h", "aacute", "l", "f", "n", "iacute", "u">>, val |-> <<8, 30, 0>>],
      [txt |-> <<"h", "aacute", "l", "f", "t", "iacute", "u">>, val |-> <<9, 30, 0>>],
      [txt |-> <<"h", "aacute", "l", "f", "e", "l", "l", "e", "f", "u">>, val |-> <<10, 30, 0>>],
      [txt |-> <<"h", "aacute", "l", "f", "t", "oacute", "l", "f">>, val |-> <<11, 30, 0>>] }

CLOCK_HALF ==
    { <<"h", "aacute", "l", "f", "e", "i", "t", "t">>,
      <<"h", "aacute", "l", "f", "t", "v", "ouml">>,
      <<"h", "aacute", "l", "f", "thorn", "r", "j", "uacute">>,
      <<"h", "aacute", "l", "f", "f", "j", "ouml", "g", "u", "r">>,
      <<"h", "aacute", "l", "f", "f", "i", "m", "m">>,
      <<"h", "aacute", "l", "f", "s", "e", "x">>,
      <<"h", "aacute", "l", "f", "s", "j", "ouml">>,
      <<"h", "aacute", "l", "f", "aacute", "t", "t", "a">>,
      <<"h", "aacute", "l", "f", "n", "iacute", "u">>,
      <<"h", "aacute", "l", "f", "t", "iacute", "u">>,
      <<"h", "aacute", "l", "f", "e", "l", "l", "e", "f", "u">>,
      <<"h", "aacute", "l", "f", "t", "oacute", "l", "f">> }

\* SI_UNITS as (txt, category) pairs
SI_UNITS ==
    { [txt |-> <<"m", "sup2">>, cat |-> <<"A">>],
      [txt |-> <<"f", "m">>, cat |-> <<"A">>],
      [txt |-> <<"c", "m", "sup2">>, cat |-> <<"A">>],
      [txt |-> <<"c", "m", "sup3">>, cat |-> <<"V">>],
      [txt |-> <<"l", "t", "r">>, cat |-> <<"V">>],
      [txt |-> <<"d", "l">>, cat |-> <<"V">>],
      [txt |-> <<"c", "l">>, cat |-> <<"V">>],
      [txt |-> <<"m", "sup3">>, cat |-> <<"V">>],
      [txt |-> <<"deg", "C">>, cat |-> <<"C">>],
      [txt |-> <<"g", "r">>, cat |-> <<"W">>],
      [txt |-> <<"k", "g">>, cat |-> <<"W">>],
      [txt |-> <<"m", "g">>, cat |-> <<"W">>],
      [txt |-> <<"mu", "g">>, cat |-> <<"W">>],
      [txt |-> <<"k", "m">>, cat |-> <<"L">>],
      [txt |-> <<"m", "m">>, cat |-> <<"L">>],
      [txt |-> <<"c", "m">>, cat |-> <<"L">>],
      [txt |-> <<"s", "m">>, cat |-> <<"L">>] }

InMonths(txt) == \E i \in 1..Len(MONTHS) : MONTHS[i] = txt

InClockNumbers(txt) == \E r \in CLOCK_NUMBERS : r.txt = txt

ClockNumber(txt) == (CHOOSE r \in CLOCK_NUMBERS : r.txt = txt).val

InSIUnits(txt) == \E r \in SI_UNITS : r.txt = txt

SIUnit(txt) == (CHOOSE r \in SI_UNITS : r.txt = txt).cat

TOK_END == { "P_END", "S_END" }

TOK_TEXT == { "WORD", "PERSON", "ENTITY" }

TOK_TEXT_EXCL_PERSON == { "WORD", "ENTITY" }

\* The abbreviation tables are read from the settings file, which is not part
\* of the sources: a small configuration with one abbreviation of each class.
Abbreviations_SINGLES ==
    { <<"d", "r">>, <<"k", "l">>, <<"h", "f">>, <<"d", "a", "g", "s">>, <<"k", "r">> }

Abbreviations_DICT ==
    { <<"d", "r", ".">>, <<"k", "l", ".">>, <<"h", "f", ".">>, <<"d", "a", "g", "s", ".">>,
      <<"D", "R">>, <<"k", "r", ".">> }

Abbreviations_FINISHERS == { <<"h", "f", ".">> }

Abbreviations_NOT_FINISHERS == { <<"d", "a", "g", "s", ".">> }

Abbreviations_NAME_FINISHERS == { <<"d", "r", ".">> }

\* compound_error(toks): the lists of toks that are not empty, concatenated
RECURSIVE compound_error(_)
compound_error(toks) ==
    IF toks = <<>> THEN PyList(<<>>)
    ELSE IF Truthy(Head(toks))
         THEN PyList(Head(toks).l \o compound_error(Tail(toks)).l)
         ELSE compound_error(Tail(toks))

\* comp_err.extend(alist) raises TypeError when alist is a number other than 0
compound_error_raises(toks) ==
    \E i \in 1..Len(toks) : Truthy(toks[i]) /\ toks[i].t \in {"int", "float"}

(***************************************************************************)
(* parse_particles(token_stream)                                           *)
(***************************************************************************)
\* the words of the year and clock phrases
ARID == <<"aacute", "r", "i", "eth">>

ARSINS == <<"aacute", "r", "s", "i", "n", "s">>

ARINU == <<"aacute", "r", "i", "n", "u">>

VARIABLES pp_input, pp_stream, pp_out, pp_pc, pp_token, pp_exc

pp_vars == <<pp_input, pp_stream, pp_out, pp_pc, pp_token, pp_exc>>

\* the token t, made from the input tokens at the positions src
From(t, src) == [t EXCEPT !.src = src]

\* the tokens the input of parse_particles is drawn from, as parse_tokens
\* makes them
PartAlphabet ==
    { Punctuation(<<"$">>, NoError),
      Punctuation(<<".">>, NoError),
      End_Paragraph,
      Number(<<"5">>, PyInt(5), PyNone, PyNone, NoError),
      Number(<<"1", ",", "5">>, PyFloat(3, 2), PyNone, PyNone, NoError),
      Word(<<"D", "r">>, PyNone, PyList(<<PyInt(3)>>)),
      Word(<<"h", "f">>, PyNone, NoError),
      Word(<<"d", "a", "g", "s">>, PyNone, NoError),
      Word(<<"k", "l">>, PyNone, NoError),
      Word(ARID, PyNone, NoError),
      Word(<<"f", ".", "K", "r">>, PyNone, NoError),
      Word(<<"k", "m">>, PyNone, NoError),
      Word(<<"I", "V">>, PyNone, NoError),
      Punctuation(<<"%">>, NoError),
      Word(<<"H", "a", "n", "n">>, PyNone, PyList(<<PyInt(3)>>)),
      Word(<<"aacute", "t", "t", "a">>, PyNone, NoError) }

pp_Idle ==
    /\ pp_input = <<>>
    /\ pp_stream = <<>>
    /\ pp_out = <<>>
    /\ pp_pc = "idle"
    /\ pp_token = NoToken
    /\ pp_exc = ""

pp_Init ==
    /\ pp_input \in { [i \in 1..Len(s) |-> From(s[i], <<i>>)] :
                          s \in SeqsUpTo(PartAlphabet, MaxPartLen) }
    /\ pp_stream = pp_input
    /\ pp_out = <<>>
    /\ pp_pc = "start"
    /\ pp_token = NoToken
    /\ pp_exc = ""

is_abbr_with_period(txt) ==
    IF HasChar(txt, ".") THEN TRUE
    ELSE IF txt \in Abbreviations_SINGLES THEN TRUE
    ELSE IF Lower(txt) \in Abbreviations_SINGLES THEN txt \notin Abbreviations_DICT
    ELSE FALSE

\* The local state of one pass of the loop is a record st: token, next_token,
\* follow_token, clock, the rest of the stream, the tokens yielded so far and
\* the exception raised ("" when none).
IsPunct(t, c) == t.kind = "PUNCTUATION" /\ t.txt = <<c>>

\* next_token = next(token_stream)
PullNext(st) ==
    IF st.stream = <<>> THEN [st EXCEPT !.raised = "StopIteration"]
    ELSE [st EXCEPT !.next_token = Head(st.stream), !.stream = Tail(st.stream)]

\* follow_token = next(token_stream)
PullFollow(st) ==
    IF st.stream = <<>> THEN [st EXCEPT !.raised = "StopIteration"]
    ELSE [st EXCEPT !.follow_token = Head(st.stream), !.stream = Tail(st.stream)]

\* token = t; next_token = next(token_stream), where building t may raise
FuseNext(st, t, raises) ==
    IF raises # "" THEN [st EXCEPT !.raised = raises]
    ELSE PullNext([st EXCEPT !.token = From(t, st.token.src \o st.next_token.src)])

\* the error list compound_error([token.error, next_token.error])
PairError(st) == compound_error(<<st.token.error, st.next_token.error>>)

PairErrorRaises(st) ==
    IF compound_error_raises(<<st.token.error, st.next_token.error>>) THEN "TypeError" ELSE ""

\* $[number] and euro[number]
pp_Currency(st, sign, iso) ==
    IF st.raised # "" THEN st
    ELSE IF IsPunct(st.token, sign) /\ st.next_token.kind = "NUMBER"
    THEN FuseNext(st,
             Amount(st.token.txt \o st.next_token.txt, iso, st.next_token.val.l[1],
                    PyNone, PyNone, PyList(<<st.token.error, st.next_token.error>>)),
             "")
    ELSE st

\* an abbreviation followed by a period
pp_Abbrev(st) ==
    IF st.raised # "" THEN st
    ELSE IF /\ IsPunct(st.next_token, ".")
            /\ st.token.kind = "WORD"
            /\ Last(st.token.txt) # "."
            /\ is_abbr_with_period(st.token.txt)
    THEN LET s1 == PullFollow([st EXCEPT !.clock = (Lower(st.token.txt) = CLOCK_ABBREV)])
             abbrev == st.token.txt \o <<".">>
             test_set == IF abbrev \in Abbreviations_NAME_FINISHERS
                         THEN TOK_TEXT_EXCL_PERSON ELSE TOK_TEXT
             follow == s1.follow_token
             finish == \/ follow.kind \in TOK_END
                       \/ /\ follow.kind \in test_set
                          /\ IsUpperChar(follow.txt[1])
                          /\ ~InMonths(Lower(follow.txt))
             whole == From(Word(<<"[">> \o st.token.txt \o <<".", "]">>, PyNone, NoError),
                           st.token.src \o st.next_token.src)
         IN  IF s1.raised # "" THEN s1
             ELSE IF finish /\ abbrev \in Abbreviations_FINISHERS
             THEN [s1 EXCEPT
                      !.out = Append(@, From(Word(<<"[">> \o st.token.txt \o <<"]">>, PyNone,
                                                  NoError), st.token.src)),
                      !.token = st.next_token,
                      !.next_token = follow]
             ELSE IF finish /\ abbrev \in Abbreviations_NOT_FINISHERS
             THEN [s1 EXCEPT !.out = Append(@, st.token),
                             !.token = st.next_token,
                             !.next_token = follow]
             ELSE [s1 EXCEPT !.token = whole, !.next_token = follow]
    ELSE st

IsClock(st) == st.clock \/ (st.token.kind = "WORD" /\ Lower(st.token.txt) = CLOCK_WORD)

ClockText(st) == CLOCK_ABBREV \o <<".", " ">> \o st.next_token.txt

\* 'klukkan'/[kl.] + time or number
pp_ClockTime(st) ==
    IF st.raised # "" THEN st
    ELSE IF st.next_token.kind \in {"TIME", "NUMBER"} /\ IsClock(st)
    THEN IF st.next_token.kind = "NUMBER"
         THEN FuseNext(st, Time(ClockText(st), st.next_token.val.l[1], PyInt(0), PyInt(0),
                                PairError(st)), PairErrorRaises(st))
         ELSE FuseNext(st, Time(ClockText(st), st.next_token.val.l[1], st.next_token.val.l[2],
                                st.next_token.val.l[3], PairError(st)), PairErrorRaises(st))
    ELSE st

ClockTime(w, hms, error) == Time(w, PyInt(hms[1]), PyInt(hms[2]), PyInt(hms[3]), error)

\* 'klukkan/kl.' + a clock word, and the clock words that stand alone
pp_ClockWord(st) ==
    IF st.raised # "" THEN st
    ELSE LET s1 == IF InClockNumbers(st.next_token.txt) /\ IsClock(st)
                   THEN FuseNext(st, ClockTime(ClockText(st), ClockNumber(st.next_token.txt),
                                               PairError(st)), PairErrorRaises(st))
                   ELSE st
         IN  IF s1.raised # "" THEN s1
             ELSE IF s1.token.txt \in CLOCK_HALF
             THEN [s1 EXCEPT !.token = From(ClockTime(s1.token.txt, ClockNumber(s1.token.txt),
                                                      s1.token.error), s1.token.src)]
             ELSE s1

\* 'arid' + [year|number]; val is the text of the second token
pp_Year(st) ==
    IF st.raised # "" THEN st
    ELSE IF /\ st.token.kind = "WORD"
            /\ st.token.txt \in {ARID, ARSINS, ARINU}
            /\ st.next_token.kind \in {"YEAR", "NUMBER"}
    THEN FuseNext(st, Year(st.token.txt \o <<" ">> \o st.next_token.txt,
                           PyStr(st.next_token.txt), PairError(st)), PairErrorRaises(st))
    ELSE st

\* int(v) for an int, a float (truncated) or a str of digits; ok is FALSE
\* where Python raises ValueError
PyIntOf(v) ==
    CASE v.t = "int" -> [ok |-> TRUE, val |-> v]
      [] v.t = "float" -> [ok |-> TRUE,
                           val |-> PyInt(IF v.n >= 0 THEN v.n \div v.d ELSE -((-v.n) \div v.d))]
      [] v.t = "str" -> IF IsDigits(v.s) THEN [ok |-> TRUE, val |-> PyInt(StrToInt(v.s))]
                        ELSE [ok |-> FALSE, val |-> PyNone]
      [] OTHER -> [ok |-> FALSE, val |-> PyNone]

\* [year|number] + 'f.Kr'/'e.Kr'
pp_Era(st) ==
    IF st.raised # "" THEN st
    ELSE IF st.token.kind \in {"YEAR", "NUMBER"}
    THEN LET conv == PyIntOf(st.token.val)
             val == IF st.token.kind = "YEAR" THEN conv.val ELSE st.token.val.l[1]
             txt == st.token.txt \o <<" ">> \o st.next_token.txt
         IN  IF st.token.kind = "YEAR" /\ ~conv.ok
             THEN [st EXCEPT !.raised = IF st.token.val.t = "str" THEN "ValueError"
                                        ELSE "TypeError"]
             ELSE IF st.next_token.txt = <<"f", ".", "K", "r">>
             THEN FuseNext(st, Year(txt, PyInt(-(PyIntOf(val).val.n)), PairError(st)),
                           PairErrorRaises(st))
             ELSE IF st.next_token.txt = <<"e", ".", "K", "r">>
             THEN FuseNext(st, Year(txt, val, PairError(st)), PairErrorRaises(st))
             ELSE st
    ELSE st

\* number + '%'
pp_Percent(st) ==
    IF st.raised # "" THEN st
    ELSE IF IsPunct(st.next_token, "%") /\ st.token.kind = "NUMBER"
    THEN FuseNext(st, Percent(st.token.txt \o <<"%">>, st.token.val.l[1], PyNone, PyNone,
                              st.token.error), "")
    ELSE st

\* whole number or Roman numeral + '.'
pp_Ordinal(st) ==
    IF st.raised # "" THEN st
    ELSE IF /\ IsPunct(st.next_token, ".")
            /\ \/ /\ st.token.kind = "NUMBER"
                  /\ ~(HasChar(st.token.txt, ".") \/ HasChar(st.token.txt, ","))
               \/ /\ st.token.kind = "WORD"
                  /\ ReMatch(RE_ROMAN_NUMERAL, st.token.txt) >= 0
    THEN LET s1 == PullFollow(st)
             follow == s1.follow_token
             roman == roman_to_int(st.token.txt)
             num == IF st.token.kind = "NUMBER" THEN st.token.val.l[1]
                    ELSE PyInt(roman.result)
         IN  IF s1.raised # "" THEN s1
             ELSE IF \/ follow.kind \in {"S_END", "P_END"}
                     \/ /\ follow.kind = "PUNCTUATION"
                        /\ follow.txt \in { <<"bdquo">>, <<"\"">> }
                     \/ /\ follow.kind = "WORD"
                        /\ IsUpperChar(follow.txt[1])
                        /\ ~InMonths(Lower(follow.txt))
             THEN [s1 EXCEPT !.out = Append(@, st.token),
                             !.token = st.next_token,
                             !.next_token = follow]
             ELSE IF st.token.kind = "WORD" /\ ~roman.ok
             THEN [s1 EXCEPT !.raised = "AssertionError"]
             ELSE [s1 EXCEPT
                      !.token = From(Ordinal(st.token.txt \o <<".">>, num, st.token.error),
                                     st.token.src \o st.next_token.src),
                      !.next_token = follow]
    ELSE st

\* number + SI unit; the whole val tuple of the number is passed on
pp_Measurement(st) ==
    IF st.raised # "" THEN st
    ELSE IF st.token.kind = "NUMBER" /\ InSIUnits(st.next_token.txt)
    THEN FuseNext(st, Measurement(st.token.txt \o <<" ">> \o st.next_token.txt,
                                  SIUnit(st.next_token.txt), st.token.val, PairError(st)),
                  PairErrorRaises(st))
    ELSE st

\* the body of the loop from the lookahead to the last check
pp_Body(st) ==
    pp_Measurement(pp_Ordinal(pp_Percent(pp_Era(pp_Year(pp_ClockWord(pp_ClockTime(
        pp_Abbrev(pp_Currency(pp_Currency(PullNext(st), "$", <<"U", "S", "D">>),
                              "euro", <<"E", "U", "R">>)))))))))

\* token = next(token_stream); an empty stream ends the generator with token None
pp_Start ==
    /\ pp_pc = "start"
    /\ IF pp_stream = <<>>
       THEN pp_pc' = "done" /\ UNCHANGED <<pp_token, pp_stream>>
       ELSE pp_pc' = "loop" /\ pp_token' = Head(pp_stream) /\ pp_stream' = Tail(pp_stream)
    /\ UNCHANGED <<pp_input, pp_out, pp_exc>>

\* one pass of 'while True'.  StopIteration ends the generator after yielding
\* the current token; any other exception leaves the generator.
pp_Loop ==
    /\ pp_pc = "loop"
    /\ LET st == pp_Body([token |-> pp_token, next_token |-> NoToken,
                          follow_token |-> NoToken, clock |-> FALSE,
                          stream |-> pp_stream, out |-> pp_out, raised |-> ""])
       IN  /\ pp_stream' = st.stream
           /\ IF st.raised = ""
              THEN /\ pp_out' = Append(st.out, st.token)
                   /\ pp_token' = st.next_token
                   /\ pp_pc' = "loop"
                   /\ pp_exc' = ""
              ELSE IF st.raised = "StopIteration"
              THEN /\ pp_out' = Append(st.out, st.token)
                   /\ pp_token' = st.token
                   /\ pp_pc' = "done"
                   /\ pp_exc' = ""
              ELSE /\ pp_out' = st.out
                   /\ pp_token' = st.token
                   /\ pp_pc' = "raised"
                   /\ pp_exc' = st.raised
    /\ UNCHANGED pp_input

pp_Next == pp_Start \/ pp_Loop

(***************************************************************************)
(* parse_tokens(txt)                                                       *)
(***************************************************************************)
PUNCT_INSIDE_WORD == { ".", "'", "lsquo", "acute", "rsquo" }

HYPHENS == { "mdash", "ndash", "-" }

HYPHEN == "-"

COMPOSITE_HYPHENS == { "ndash", "-" }

COMPOSITE_HYPHEN == "ndash"

SQUOTES == { "'", "sbquo", "rsquohigh", "lsquo" }

DQUOTES == { "\"", "ldquo", "bdquo", "rdquo" }

\* ORDINAL_ERRORS as (txt, replacement) pairs
ORDINAL_ERRORS ==
    { [txt |-> <<"1", "s", "t", "i">>, word |-> <<"f", "y", "r", "s", "t", "i">>],
      [txt |-> <<"1", "s", "t", "a">>, word |-> <<"f", "y", "r", "s", "t", "a">>],
      [txt |-> <<"1", "s", "t", "u">>, word |-> <<"f", "y", "r", "s", "t", "u">>],
      [txt |-> <<"3", "j", "i">>, word |-> <<"thorn", "r", "i", "eth", "j", "i">>],
      [txt |-> <<"3", "j", "a">>, word |-> <<"thorn", "r", "i", "g", "g", "j", "a">>],
      [txt |-> <<"3", "j", "u">>, word |-> <<"thorn", "r", "i", "eth", "j", "u">>],
      [txt |-> <<"4", "eth", "i">>, word |-> <<"f", "j", "oacute", "r", "eth", "i">>],
      [txt |-> <<"4", "eth", "a">>, word |-> <<"f", "j", "oacute", "r", "eth", "a">>],
      [txt |-> <<"4", "eth", "u">>, word |-> <<"f", "j", "oacute", "r", "eth", "u">>],
      [txt |-> <<"5", "t", "i">>, word |-> <<"f", "i", "m", "m", "t", "i">>],
      [txt |-> <<"5", "t", "a">>, word |-> <<"f", "i", "m", "m", "t", "a">>],
      [txt |-> <<"5", "t", "u">>, word |-> <<"f", "i", "m", "m", "t", "u">>],
      [txt |-> <<"2", "s", "v", "a", "r">>, word |-> <<"t", "v", "i", "s", "v", "a", "r">>],
      [txt |-> <<"3", "s", "v", "a", "r">>, word |-> <<"thorn", "r", "i", "s", "v", "a", "r">>],
      [txt |-> <<"2", "j", "a">>, word |-> <<"t", "v", "e", "g", "g", "j", "a">>],
      [txt |-> <<"4", "r", "a">>, word |-> <<"f", "j", "ouml", "g", "u", "r", "r", "a">>] }

Email(w, error) == Tok("EMAIL", w, PyNone, error)

Url(w, error) == Tok("URL", w, PyNone, error)

\* \s
Whitespace == { " " }

\* [^@\s]+@[^@\s]+(\.[^@\s\.,/:;\"rdquo]+)+
RE_EMAIL ==
    ReCat(<<ReRep(ReNotClass({"@"} \cup Whitespace), 1, -1),
            ReLit("@"),
            ReRep(ReNotClass({"@"} \cup Whitespace), 1, -1),
            ReRep(ReCat(<<ReLit("."),
                          ReRep(ReNotClass({"@", ".", ",", "/", ":", ";", "\"", "rdquo"}
                                               \cup Whitespace), 1, -1)>>), 1, -1)>>)

\* w.startswith(p)
StartsWith(w, p) == Len(w) >= Len(p) /\ SubSeq(w, 1, Len(p)) = p

\* txt.split(): the maximal runs of characters that are not whitespace
Lexemes(txt) == SelectSeq(Split(txt, " "), LAMBDA w : w # <<>>)

VARIABLES pt_txt, pt_rough, pt_w, pt_QM, pt_out, pt_pc, pt_exc

pt_vars == <<pt_txt, pt_rough, pt_w, pt_QM, pt_out, pt_pc, pt_exc>>

\* the characters of the texts given to parse_tokens: a lower-case letter,
\* a digit, a hyphen, the two ASCII quotes, a period, a character of no
\* class, and the space
TokAlphabet == { "w", "1", "-", "\"", "'", ".", "^", " " }

\* texts that reach the branches the short texts cannot
TokSamples ==
    { <<"a", "@", "b", ".", "c">>,
      <<"a", "b", ".", "C", "d">>,
      <<",", ",", "a", ",", ",">>,
      <<"[", ".", ".", ".", "]", ".", ".", ".">>,
      <<"[", "[", " ", "a", " ", "]", "]">>,
      <<"1", "s", "t", "i">>,
      <<"w", "w", "w", ".", "a", ".", "i", "s", ",">>,
      <<"\"", "a", "b", "-", "c", "d", "\"">>,
      <<"'", "a", "b", "-", "c", "d", "'">>,
      <<"$", "5", "%">> }

pt_Idle ==
    /\ pt_txt = <<>>
    /\ pt_rough = <<>>
    /\ pt_w = <<>>
    /\ pt_QM = FALSE
    /\ pt_out = <<>>
    /\ pt_pc = "idle"
    /\ pt_exc = ""

pt_Init ==
    /\ pt_txt \in SeqsUpTo(TokAlphabet, MaxTextLen) \cup TokSamples
    /\ pt_rough = Lexemes(pt_txt)
    /\ pt_w = <<>>
    /\ pt_QM = FALSE
    /\ pt_out = <<>>
    /\ pt_pc = "for"
    /\ pt_exc = ""

\* The local state of the work on one lexeme is a record st: w, QM, ate, the
\* tokens yielded so far, whether w is None, whether the pass ended with
\* 'continue', and the exception raised ("" when none).
Yield(st, t) == [st EXCEPT !.out = Append(@, t)]

\* the lines of the 'for' body before 'while w'; next is TRUE when the body
\* ended with 'continue'
pt_Quotes(w, out) ==
    LET inner == Slice(w, 1, Len(w) - 1)
        s0 == [w |-> w, QM |-> FALSE, out |-> out, next |-> FALSE]
        \* w wrapped in double quotes
        s1 == IF Len(w) > 2 /\ w[1] \in DQUOTES /\ Last(w) \in DQUOTES
              THEN IF isalpha(inner)
                   THEN [s0 EXCEPT !.out = out \o <<Punctuation(<<"bdquo">>, NoError),
                                                    Word(inner, PyNone, NoError),
                                                    Punctuation(<<"ldquo">>, NoError)>>,
                                   !.next = TRUE]
                   ELSE [s0 EXCEPT !.out = Append(out, Punctuation(<<"bdquo">>, NoError)),
                                   !.QM = TRUE,
                                   !.w = inner \o <<"ldquo">>]
              ELSE s0
        inner1 == Slice(s1.w, 1, Len(s1.w) - 1)
        \* w wrapped in single quotes
        s2 == IF s1.next THEN s1
              ELSE IF Len(s1.w) > 2 /\ s1.w[1] \in SQUOTES /\ Last(s1.w) \in SQUOTES
              THEN IF isalpha(inner1)
                   THEN [s1 EXCEPT !.out = @ \o <<Punctuation(<<"sbquo">>, PyList(<<PyInt(1)>>)),
                                                  Word(inner1, PyNone, NoError),
                                                  Punctuation(<<"lsquo">>, PyList(<<PyInt(1)>>))>>,
                                   !.QM = FALSE,
                                   !.next = TRUE]
                   ELSE [s1 EXCEPT !.out = Append(@, Punctuation(<<"sbquo">>,
                                                                 PyList(<<PyInt(1)>>))),
                                   !.QM = TRUE,
                                   !.w = inner1 \o <<"lsquo">>]
              ELSE s1
    IN  \* a simple double quote in front
        IF s2.next THEN s2
        ELSE IF Len(s2.w) > 1 /\ s2.w[1] = "\""
        THEN [s2 EXCEPT !.out = Append(@, Punctuation(<<"bdquo">>, PyList(<<PyInt(1)>>))),
                        !.w = SliceFrom(s2.w, 1)]
        ELSE s2

RECURSIVE StripHyphens(_)
StripHyphens(w) == IF w # <<>> /\ w[1] \in HYPHENS THEN StripHyphens(Tail(w)) ELSE w

\* the inner loop 'while w and w[0] in PUNCTUATION'
RECURSIVE pt_Punctuation(_)
pt_Punctuation(st) ==
    IF st.w = <<>> \/ st.w[1] \notin PUNCTUATION THEN st
    ELSE LET w == st.w
             s0 == [st EXCEPT !.ate = TRUE]
             \* yield TOK.Punctuation(p, error); w = w[k:]; then the check for '"'
             Eat(t, k) ==
                 LET rest == SliceFrom(w, k)
                 IN  [s0 EXCEPT !.out = Append(@, t),
                                !.w = IF rest = <<"\"">> THEN <<"ldquo">> ELSE rest]
         IN  IF StartsWith(w, <<"[", ".", ".", ".", "]">>)
             THEN pt_Punctuation(Eat(Punctuation(<<"[", "hellip", "]">>, NoError), 5))
             ELSE IF StartsWith(w, <<"[", "hellip", "]">>)
             THEN pt_Punctuation(Eat(Punctuation(<<"[", "hellip", "]">>, NoError), 3))
             ELSE IF StartsWith(w, <<".", ".", ".">>)
             THEN pt_Punctuation(Eat(Punctuation(<<"hellip">>, NoError), 3))
             ELSE IF w = <<",", ",">>
             THEN pt_Punctuation(Eat(Punctuation(<<",">>, PyList(<<PyInt(2)>>)), 2))
             ELSE IF StartsWith(w, <<",", ",">>)
             THEN pt_Punctuation(Eat(Punctuation(<<"bdquo">>, PyList(<<PyInt(1)>>)), 2))
             ELSE IF w = <<"[", "[">>
             THEN pt_Punctuation(Eat(Begin_Paragraph, 2))
             ELSE IF w = <<"]", "]">>
             THEN pt_Punctuation(Eat(End_Paragraph, 2))
             ELSE IF w[1] \in HYPHENS
             THEN LET rest == StripHyphens(Tail(w))
                  IN  pt_Punctuation(
                          [s0 EXCEPT !.out = Append(@, Punctuation(<<HYPHEN>>, NoError)),
                                     !.w = IF rest = <<"\"">> THEN <<"ldquo">> ELSE rest])
             ELSE IF w = <<"rdquo">>
             THEN pt_Punctuation([s0 EXCEPT !.w = <<"ldquo">>])
             ELSE IF w = <<"'">>
             THEN pt_Punctuation([s0 EXCEPT !.w = <<"lsquo">>])
             ELSE pt_Punctuation(Eat(Punctuation(<<w[1]>>, NoError), 1))

\* e-mail addresses
pt_Email(st) ==
    LET e == ReMatch(RE_EMAIL, st.w)
    IN  IF st.w # <<>> /\ HasChar(st.w, "@") /\ e >= 0
        THEN [st EXCEPT !.ate = TRUE,
                        !.out = Append(@, Email(Slice(st.w, 0, e), NoError)),
                        !.w = SliceFrom(st.w, e)]
        ELSE st

InOrdinalErrors(w) == \E r \in ORDINAL_ERRORS : r.txt = w

\* yield t; w = w[eaten:] for the result r = (t, eaten) of parse_digits
pt_Eaten(st, r) ==
    [st EXCEPT !.ate = TRUE,
               !.out = Append(@, r.tok),
               !.w = SliceFrom(st.w, r.eaten)]

\* numbers or other stuff starting with a digit; a misspelled ordinal is
\* replaced and the pass ends with 'continue'
pt_Digits(st) ==
    IF st.w # <<>> /\ st.w[1] \in DIGITS
    THEN IF InOrdinalErrors(st.w)
         THEN [st EXCEPT !.w = (CHOOSE r \in ORDINAL_ERRORS : r.txt = st.w).word,
                         !.continue = TRUE]
         ELSE pt_Eaten(st, parse_digits(st.w))
    ELSE st

\* the characters of RIGHT_PUNCTUATION at the end of w are cut off
RECURSIVE UrlEnd(_)
UrlEnd(w) ==
    IF w # <<>> /\ Last(w) \in RIGHT_PUNCTUATION THEN UrlEnd(SubSeq(w, 1, Len(w) - 1))
    ELSE Len(w)

\* URLs
pt_Url(st) ==
    IF st.continue THEN st
    ELSE IF \/ st.w # <<>> /\ StartsWith(st.w, <<"h", "t", "t", "p", ":", "/", "/">>)
            \/ StartsWith(st.w, <<"h", "t", "t", "p", "s", ":", "/", "/">>)
            \/ StartsWith(st.w, <<"w", "w", "w">>)
    THEN LET k == UrlEnd(st.w)
         IN  [st EXCEPT !.ate = TRUE,
                        !.out = Append(@, Url(Slice(st.w, 0, k), NoError)),
                        !.w = SliceFrom(st.w, k)]
    ELSE st

\* the offset just after the word that starts w: letters, and the
\* punctuation allowed inside a word when a letter or the end follows
RECURSIVE WordEnd(_, _)
WordEnd(w, i) ==
    IF /\ i < Len(w)
       /\ \/ IsAlphaChar(w[i + 1])
          \/ /\ w[i + 1] \in PUNCT_INSIDE_WORD
             /\ (i + 1 = Len(w) \/ IsAlphaChar(w[i + 2]))
    THEN WordEnd(w, i + 1)
    ELSE i

\* periods at the end of the word are not eaten
RECURSIVE BackOverPeriods(_, _)
BackOverPeriods(w, i) == IF w[i] = "." THEN BackOverPeriods(w, i - 1) ELSE i

\* the check made after a word when the lexeme was wrapped in quotes: the
\* name q of line 1361 is not defined anywhere
pt_QuotedRest(st) ==
    LET inner == Slice(st.w, 0, Len(st.w) - 1)
    IN  IF st.QM /\ isalpha(inner)
        THEN IF Last(st.w) \in SQUOTES
             THEN [st EXCEPT !.out = @ \o <<Word(inner, PyNone, NoError),
                                            Punctuation(<<"lsquo">>, NoError)>>,
                             !.QM = FALSE]
             ELSE [st EXCEPT !.out = Append(@, Word(inner, PyNone, NoError)),
                             !.raised = "NameError"]
        ELSE st

\* alphabetic characters
pt_Alphabetic(st) ==
    IF st.continue THEN st
    ELSE IF st.w # <<>> /\ IsAlphaChar(st.w[1])
    THEN LET w == st.w
             a == Split(w, ".")
             i == BackOverPeriods(w, WordEnd(w, 1))
             rest == SliceFrom(w, i)
             s0 == [st EXCEPT !.ate = TRUE]
         IN  IF /\ Len(a) = 2
                /\ a[1] # <<>> /\ IsLowerChar(a[1][1])
                /\ a[2] # <<>> /\ IsUpperChar(a[2][1])
             THEN [s0 EXCEPT !.out = @ \o <<Word(a[1], PyNone, NoError),
                                            Punctuation(<<".">>, NoError),
                                            Word(a[2], PyNone, PyList(<<PyInt(3)>>))>>,
                             !.w = <<>>,
                             !.wnone = TRUE]
             ELSE IF rest # <<>> /\ rest[1] \in COMPOSITE_HYPHENS
             THEN pt_QuotedRest(
                      [s0 EXCEPT !.out = @ \o <<Word(Slice(w, 0, i), PyNone, NoError),
                                                Punctuation(<<COMPOSITE_HYPHEN>>, NoError)>>,
                                 !.w = Tail(rest)])
             ELSE pt_QuotedRest(
                      [s0 EXCEPT !.out = Append(@, Word(Slice(w, 0, i), PyNone, NoError)),
                                 !.w = rest])
    ELSE st

\* everything is eaten, even unknown stuff; a simple double quote that is
\* left in front becomes a closing quote
pt_Unknown(st) ==
    IF st.continue \/ st.raised # "" THEN st
    ELSE LET s1 == IF ~st.ate
                   THEN [st EXCEPT !.out = Append(@, Unknown(<<st.w[1]>>, NoError)),
                                   !.w = Tail(st.w)]
                   ELSE st
         IN  IF s1.w # <<>> /\ s1.w[1] = "\""
             THEN [s1 EXCEPT !.w = <<"ldquo">> \o Tail(s1.w)]
             ELSE s1

\* for w in rough: the lines before 'while w'
pt_For ==
    /\ pt_pc = "for"
    /\ IF pt_rough = <<>>
       THEN pt_pc' = "done" /\ UNCHANGED <<pt_rough, pt_w, pt_QM, pt_out>>
       ELSE LET w == Head(pt_rough)
                st == pt_Quotes(w, pt_out)
            IN  /\ pt_rough' = Tail(pt_rough)
                /\ IF isalpha(w) \/ InSIUnits(w)
                   THEN /\ pt_out' = Append(pt_out, Word(w, PyNone, NoError))
                        /\ pt_pc' = "for"
                        /\ pt_w' = <<>>
                        /\ pt_QM' = FALSE
                   ELSE /\ pt_out' = st.out
                        /\ pt_pc' = IF st.next THEN "for" ELSE "while"
                        /\ pt_w' = IF st.next THEN <<>> ELSE st.w
                        /\ pt_QM' = st.QM
    /\ UNCHANGED <<pt_txt, pt_exc>>

\* one pass of 'while w'
pt_While ==
    /\ pt_pc = "while"
    /\ \E st \in { pt_Unknown(pt_Alphabetic(pt_Url(pt_Digits(pt_Email(pt_Punctuation(
                     [w |-> pt_w, QM |-> pt_QM, ate |-> FALSE, out |-> pt_out,
                      wnone |-> FALSE, continue |-> FALSE, raised |-> ""])))))) } :
           /\ pt_out' = st.out
           /\ pt_w' = st.w
           /\ pt_QM' = st.QM
           /\ pt_exc' = st.raised
           /\ pt_pc' = IF st.raised # "" THEN "raised"
                       ELSE IF st.w = <<>> THEN "for"
                       ELSE "while"
    /\ UNCHANGED <<pt_txt, pt_rough>>

pt_Next == pt_For \/ pt_While

(***************************************************************************)
(* parse_sentences                                                         *)
(***************************************************************************)
VARIABLES
    ps_input,        \* the whole upstream token sequence (history)
    ps_stream,       \* what next(token_stream) has not returned yet
    ps_out,          \* tokens yielded so far
    ps_pc,           \* "idle", "start", "loop", "final", "done"
    ps_token,        \* local: token
    ps_in_sentence   \* local: in_sentence

ps_vars == <<ps_input, ps_stream, ps_out, ps_pc, ps_token, ps_in_sentence>>

\* kinds of token that parse_particles can hand to parse_sentences
SentAlphabet ==
    { Begin_Paragraph, End_Paragraph,
      Word(<<"a">>, PyNone, PyList(<<>>)),
      Punctuation(<<".">>, PyList(<<>>)),
      Punctuation(<<")">>, PyList(<<>>)) }

ps_Idle ==
    /\ ps_input = <<>>
    /\ ps_stream = <<>>
    /\ ps_out = <<>>
    /\ ps_pc = "idle"
    /\ ps_token = NoToken
    /\ ps_in_sentence = FALSE

ps_Init ==
    /\ ps_input \in SeqsUpTo(SentAlphabet, MaxSentLen)
    /\ ps_stream = ps_input
    /\ ps_out = <<>>
    /\ ps_pc = "start"
    /\ ps_token = NoToken
    /\ ps_in_sentence = FALSE

IsSentenceFinisher(t) == t.kind = "PUNCTUATION" /\ t.txt \in SENTENCE_FINISHERS

\* number of leading tokens of s that are sentence finishers
RECURSIVE FinisherRun(_)
FinisherRun(s) ==
    IF s = <<>> \/ ~IsSentenceFinisher(Head(s)) THEN 0
    ELSE 1 + FinisherRun(Tail(s))

\* token = next(token_stream), before the loop
ps_Start ==
    /\ ps_pc = "start"
    /\ IF ps_stream = <<>>
       THEN /\ ps_pc' = "final"
            /\ UNCHANGED <<ps_token, ps_stream>>
       ELSE /\ ps_token' = Head(ps_stream)
            /\ ps_stream' = Tail(ps_stream)
            /\ ps_pc' = "loop"
    /\ UNCHANGED <<ps_input, ps_out, ps_in_sentence>>

\* one pass through the body of 'while True'
ps_Loop ==
    /\ ps_pc = "loop"
    /\ UNCHANGED ps_input
    /\ IF ps_stream = <<>>
       THEN \* next_token = next(token_stream) raises StopIteration
            /\ ps_pc' = "final"
            /\ UNCHANGED <<ps_stream, ps_out, ps_token, ps_in_sentence>>
       ELSE LET next_token == Head(ps_stream)
                rest == Tail(ps_stream)
            IN  IF ps_token.kind \in {"P_BEGIN", "P_END"}
                THEN LET closed == IF ps_in_sentence THEN <<End_Sentence>> ELSE <<>>
                     IN  /\ ps_in_sentence' = FALSE
                         /\ IF ps_token.kind = "P_BEGIN" /\ next_token.kind = "P_END"
                            THEN \* skip both: token = None; token = next(token_stream)
                                 /\ ps_out' = ps_out \o closed
                                 /\ IF rest = <<>>
                                    THEN /\ ps_token' = NoToken
                                         /\ ps_stream' = rest
                                         /\ ps_pc' = "final"
                                    ELSE /\ ps_token' = Head(rest)
                                         /\ ps_stream' = Tail(rest)
                                         /\ ps_pc' = "loop"
                            ELSE /\ ps_out' = ps_out \o closed \o <<ps_token>>
                                 /\ ps_token' = next_token
                                 /\ ps_stream' = rest
                                 /\ ps_pc' = "loop"
                ELSE LET opened == IF ps_in_sentence THEN <<>> ELSE <<Begin_Sentence>>
                     IN  IF ps_token.kind = "PUNCTUATION" /\ ps_token.txt \in END_OF_SENTENCE
                         THEN LET look == ps_stream
                                  k == FinisherRun(look)
                                  \* tokens the inner while loop walks over
                                  walked == <<ps_token>> \o SubSeq(look, 1, k)
                              IN  IF k = Len(look)
                                  THEN \* next() raises inside the inner loop
                                       /\ ps_out' = ps_out \o opened
                                                      \o SubSeq(walked, 1, Len(walked) - 1)
                                       /\ ps_token' = Last(walked)
                                       /\ ps_in_sentence' = TRUE
                                       /\ ps_stream' = <<>>
                                       /\ ps_pc' = "final"
                                  ELSE /\ ps_out' = ps_out \o opened \o walked
                                                      \o <<End_Sentence>>
                                       /\ ps_token' = look[k + 1]
                                       /\ ps_in_sentence' = FALSE
                                       /\ ps_stream' = SubSeq(look, k + 2, Len(look))
                                       /\ ps_pc' = "loop"
                         ELSE /\ ps_out' = ps_out \o opened \o <<ps_token>>
                              /\ ps_token' = next_token
                              /\ ps_in_sentence' = TRUE
                              /\ ps_stream' = rest
                              /\ ps_pc' = "loop"

\* the code after the try block: final token and closing of the sentence
ps_Final ==
    /\ ps_pc = "final"
    /\ LET starting == ps_token # NoToken /\ ~ps_in_sentence
                         /\ ps_token.kind \notin {"P_END", "S_END"}
           in1 == ps_in_sentence \/ starting
           in2 == IF ps_token # NoToken /\ in1 /\ ps_token.kind \in {"P_END", "S_END"}
                  THEN FALSE ELSE in1
       IN  /\ ps_out' = ps_out
                \o (IF starting THEN <<Begin_Sentence>> ELSE <<>>)
                \o (IF ps_token # NoToken THEN <<ps_token>> ELSE <<>>)
                \o (IF in2 THEN <<End_Sentence>> ELSE <<>>)
           /\ ps_in_sentence' = in2
    /\ ps_pc' = "done"
    /\ UNCHANGED <<ps_input, ps_stream, ps_token>>

ps_Next == ps_Start \/ ps_Loop \/ ps_Final

(***************************************************************************)
(* roman_to_int called on the strings RE_ROMAN_NUMERAL accepts             *)
(***************************************************************************)
VARIABLES rn_n, rn_s, rn_pc, rn_ret

rn_vars == <<rn_n, rn_s, rn_pc, rn_ret>>

\* one decimal digit d written with the numerals for 1, 5 and 10 of its place
RomanDigit(d, one, five, ten) ==
    CASE d = 9 -> <<one, ten>>
      [] d = 4 -> <<one, five>>
      [] d >= 5 -> <<five>> \o [i \in 1..(d - 5) |-> one]
      [] OTHER -> [i \in 1..d |-> one]

\* the canonical Roman numeral of n
ToRoman(n) ==
    [i \in 1..(n \div 1000) |-> "M"]
        \o RomanDigit((n \div 100) % 10, "C", "D", "M")
        \o RomanDigit((n \div 10) % 10, "X", "L", "C")
        \o RomanDigit(n % 10, "I", "V", "X")

\* the strings of one group (ten|five|five? one{0,3}) of RE_ROMAN_NUMERAL
RomanGroupStrings(one, five, ten) ==
    { <<one, ten>>, <<one, five>> }
        \cup { f \o [i \in 1..k |-> one] : f \in { <<>>, <<five>> }, k \in 0..3 }

\* the non-empty strings RE_ROMAN_NUMERAL matches
RomanStrings ==
    { s \in { [i \in 1..k |-> "M"] \o h \o t \o u :
                  k \in 0..4,
                  h \in RomanGroupStrings("C", "D", "M"),
                  t \in RomanGroupStrings("X", "L", "C"),
                  u \in RomanGroupStrings("I", "V", "X") } :
        s # <<>> /\ ReMatch(RE_ROMAN_NUMERAL, s) >= 0 }

rn_Idle ==
    /\ rn_n = 0
    /\ rn_s = <<>>
    /\ rn_pc = "idle"
    /\ rn_ret = [ok |-> FALSE, result |-> 0]

\* rn_n > 0: the argument is the canonical numeral of rn_n;
\* rn_n = 0: the argument is any string the regex accepts
rn_Init ==
    /\ \/ rn_n \in 1..MaxRomanValue /\ rn_s = ToRoman(rn_n)
       \/ rn_n = 0 /\ rn_s \in RomanStrings
    /\ rn_pc = "start"
    /\ rn_ret = [ok |-> FALSE, result |-> 0]

\* result = roman_to_int(s); a failed assertion raises AssertionError
rn_Call ==
    /\ rn_pc = "start"
    /\ rn_ret' = roman_to_int(rn_s)
    /\ rn_pc' = IF rn_ret'.ok THEN "returned" ELSE "raised"
    /\ UNCHANGED <<rn_n, rn_s>>

(***************************************************************************)
(* parse_digits called on a lexeme, then again on the text of its token    *)
(***************************************************************************)
VARIABLES pd_w, pd_pc, pd_ret, pd_again

pd_vars == <<pd_w, pd_pc, pd_ret, pd_again>>

\* the pieces of the lexemes given to parse_digits: digit groups and separators
DigitsParts == { <<"1">>, <<"9">>, <<"2", "3", "4">>, <<".">>, <<",">>, <<"/">> }

pd_Idle ==
    /\ pd_w = <<>>
    /\ pd_pc = "idle"
    /\ pd_ret = Parsed(NoToken, 0)
    /\ pd_again = Parsed(NoToken, 0)

\* parse_tokens calls parse_digits when w[0] is a digit
pd_Init ==
    /\ pd_w \in { w \in { Flatten(p) : p \in SeqsUpTo(DigitsParts, MaxDigitsParts) } :
                      w # <<>> /\ w[1] \in DIGITS /\ Len(w) <= MaxDigitsLen }
    /\ pd_pc = "start"
    /\ pd_ret = Parsed(NoToken, 0)
    /\ pd_again = Parsed(NoToken, 0)

\* t, eaten = parse_digits(w)
pd_Parse ==
    /\ pd_pc = "start"
    /\ pd_ret' = parse_digits(pd_w)
    /\ pd_pc' = "parsed"
    /\ UNCHANGED <<pd_w, pd_again>>

\* parse_digits(t.txt)
pd_Reparse ==
    /\ pd_pc = "parsed"
    /\ pd_again' = parse_digits(pd_ret.tok.txt)
    /\ pd_pc' = "reparsed"
    /\ UNCHANGED <<pd_w, pd_ret>>

(***************************************************************************)
(* The stages between parse_sentences and parse_phrases_1, and             *)
(* parse_phrases_1(token_stream)                                           *)
(***************************************************************************)
\* BIN_Meaning = namedtuple('BIN_Meaning', stofn utg ordfl fl ordmynd beyging)
BIN_Meaning(stofn, utg, ordfl, fl, ordmynd, beyging) ==
    PyTuple(<<PyStr(stofn), PyInt(utg), PyStr(ordfl), PyStr(fl), PyStr(ordmynd),
              PyStr(beyging)>>)

\* DAYS_OF_MONTH, an excerpt: the days of the month spelled out
DAYS_OF_MONTH ==
    { [txt |-> <<"f", "y", "r", "s", "t", "i">>, val |-> PyInt(1)],
      [txt |-> <<"f", "y", "r", "s", "t", "a">>, val |-> PyInt(1)],
      [txt |-> <<"a", "n", "n", "a", "r">>, val |-> PyInt(2)],
      [txt |-> <<"t", "u", "t", "t", "u", "g", "a", "s", "t", "i">>, val |-> PyInt(20)],
      [txt |-> <<"thorn", "r", "iacute", "t", "u", "g", "a", "s", "t", "i">>, val |-> PyInt(30)],
      [txt |-> <<"thorn", "r", "iacute", "t", "u", "g", "a", "s", "t", "a">>, val |-> PyInt(30)] }

\* MULTIPLIERS, an excerpt; 'milljón' is the float 1e6
MULTIPLIERS ==
    { [txt |-> <<"e", "i", "n", "n">>, val |-> PyInt(1)],
      [txt |-> <<"t", "v", "e", "i", "r">>, val |-> PyInt(2)],
      [txt |-> <<"aacute", "t", "t", "a">>, val |-> PyInt(8)],
      [txt |-> <<"h", "u", "n", "d", "r", "a", "eth">>, val |-> PyInt(100)],
      [txt |-> <<"thorn", "uacute", "s", "u", "n", "d">>, val |-> PyInt(1000)],
      [txt |-> <<"m", "i", "l", "l", "j", "oacute", "n">>, val |-> PyFloat(1000000, 1)] }

\* PERCENTAGES
PERCENTAGES ==
    { [txt |-> <<"p", "r", "oacute", "s", "e", "n", "t">>, val |-> PyInt(1)],
      [txt |-> <<"p", "r", "oacute", "s", "e", "n", "t", "a">>, val |-> PyInt(1)],
      [txt |-> <<"h", "u", "n", "d", "r", "a", "eth", "s", "h", "l", "u", "t", "i">>, val |-> PyInt(1)],
      [txt |-> <<"p", "r", "oacute", "s", "e", "n", "t", "u", "s", "t", "i", "g">>, val |-> PyInt(1)] }

\* NATIONALITIES, an excerpt
NATIONALITIES ==
    { [txt |-> <<"d", "a", "n", "s", "k", "u", "r">>, val |-> PyStr(<<"d", "k">>)],
      [txt |-> <<"b", "r", "e", "s", "k", "u", "r">>, val |-> PyStr(<<"u", "k">>)],
      [txt |-> <<"iacute", "s", "l", "e", "n", "s", "k", "u", "r">>, val |-> PyStr(<<"i", "s">>)] }

\* CURRENCIES, an excerpt
CURRENCIES ==
    { [txt |-> <<"k", "r", "oacute", "n", "a">>, val |-> PyStr(<<"I", "S", "K">>)],
      [txt |-> <<"I", "S", "K">>, val |-> PyStr(<<"I", "S", "K">>)],
      [txt |-> <<"[", "k", "r", ".", "]">>, val |-> PyStr(<<"I", "S", "K">>)],
      [txt |-> <<"k", "r", ".">>, val |-> PyStr(<<"I", "S", "K">>)],
      [txt |-> <<"k", "r">>, val |-> PyStr(<<"I", "S", "K">>)],
      [txt |-> <<"p", "u", "n", "d">>, val |-> PyStr(<<"G", "B", "P">>)],
      [txt |-> <<"d", "o", "l", "l", "a", "r", "i">>, val |-> PyStr(<<"U", "S", "D">>)] }

\* AMOUNT_ABBREV, an excerpt; the values are floats
AMOUNT_ABBREV ==
    { [txt |-> <<"thorn", ".", "k", "r", ".">>, val |-> PyFloat(1000, 1)],
      [txt |-> <<"m", ".", "k", "r", ".">>, val |-> PyFloat(1000000, 1)] }

\* ISO_CURRENCIES, an excerpt: (nationality, currency) -> ISO code
ISO_CURRENCIES ==
    { [nat |-> <<"d", "k">>, cur |-> <<"I", "S", "K">>, iso |-> <<"D", "K", "K">>],
      [nat |-> <<"i", "s">>, cur |-> <<"I", "S", "K">>, iso |-> <<"I", "S", "K">>],
      [nat |-> <<"u", "k">>, cur |-> <<"G", "B", "P">>, iso |-> <<"G", "B", "P">>] }

NUMBER_CATEGORIES ==
    { <<"t", "ouml", "l">>, <<"t", "o">>, <<"k", "k">>, <<"k", "v", "k">>, <<"h", "k">>, <<"l", "o">> }

ADJECTIVE_PREFIXES == { <<"h", "aacute", "l", "f">>, <<"m", "a", "r", "g">>, <<"s", "e", "m", "iacute">> }

\* ALL_CASES, in the order in which the model lists a set of cases
ALL_CASES == << <<"n", "f">>, <<"thorn", "f">>, <<"thorn", "g", "f">>, <<"e", "f">> >>

\* ALLOWED_MULTIPLES, an excerpt
ALLOWED_MULTIPLES == { <<"a", "f">>, <<"a", "eth">>, <<"e", "k", "k", "i">>, <<"e", "r">> }

\* NOT_COMPOUNDS, an excerpt
NOT_COMPOUNDS ==
    { [txt |-> <<"a", "f", "h", "v", "e", "r", "j", "u">>, val |-> << <<"a", "f">>, <<"h", "v", "e", "r", "j", "u">> >>] }

\* SPLIT_COMPOUNDS, an excerpt: the pairs of texts that are keys
SPLIT_COMPOUNDS == { << <<"a", "l">>, <<"g", "oacute", "eth", "u", "r">> >> }

\* The lexicon behind BIN_Db, an excerpt: the meanings of a word form
BIN_Db_forms ==
    { [txt |-> <<"A", "n", "n", "a", "r">>,
        val |-> << BIN_Meaning(<<"A", "n", "n", "a", "r">>, 0, <<"k", "k">>, <<"i", "s", "m">>, <<"A", "n", "n", "a", "r">>, <<"N", "F", "E", "T">>),
                   BIN_Meaning(<<"a", "n", "n", "a", "r">>, 0, <<"k", "k">>, <<"f", "n">>, <<"a", "n", "n", "a", "r">>, <<"N", "F", "E", "T">>) >>],
      [txt |-> <<"B", "j", "ouml", "r", "n">>,
        val |-> << BIN_Meaning(<<"B", "j", "ouml", "r", "n">>, 0, <<"k", "k">>, <<"i", "s", "m">>, <<"B", "j", "ouml", "r", "n">>, <<"N", "F", "E", "T">>),
                   BIN_Meaning(<<"b", "j", "ouml", "r", "n">>, 0, <<"k", "k">>, <<"a", "l", "m">>, <<"b", "j", "ouml", "r", "n">>, <<"N", "F", "E", "T">>) >>],
      [txt |-> <<"J", "oacute", "n">>,
        val |-> << BIN_Meaning(<<"J", "oacute", "n">>, 0, <<"k", "k">>, <<"i", "s", "m">>, <<"J", "oacute", "n">>, <<"N", "F", "E", "T">>) >>],
      [txt |-> <<"D", "a", "g", "u", "r">>,
        val |-> << BIN_Meaning(<<"D", "a", "g", "u", "r">>, 0, <<"k", "k">>, <<"i", "s", "m">>, <<"D", "a", "g", "u", "r">>, <<"N", "F", "E", "T">>),
                   BIN_Meaning(<<"d", "a", "g", "u", "r">>, 0, <<"k", "k">>, <<"a", "l", "m">>, <<"d", "a", "g", "u", "r">>, <<"N", "F", "E", "T">>) >>],
      [txt |-> <<"A", "n", "n", "a">>,
        val |-> << BIN_Meaning(<<"A", "n", "n", "a">>, 0, <<"k", "v", "k">>, <<"i", "s", "m">>, <<"A", "n", "n", "a">>, <<"N", "F", "E", "T">>) >>],
      [txt |-> <<"J", "oacute", "n", "s", "d", "oacute", "t", "t", "i", "r">>,
        val |-> << BIN_Meaning(<<"J", "oacute", "n", "s", "d", "oacute", "t", "t", "i", "r">>, 0, <<"k", "v", "k">>, <<"f", "ouml", "eth">>, <<"J", "oacute", "n", "s", "d", "oacute", "t", "t", "i", "r">>, <<"N", "F", "E", "T">>) >>],
      [txt |-> <<"J", "oacute", "n", "s", "s", "o", "n">>,
        val |-> << BIN_Meaning(<<"J", "oacute", "n", "s", "s", "o", "n">>, 0, <<"k", "k">>, <<"f", "ouml", "eth">>, <<"J", "oacute", "n", "s", "s", "o", "n">>, <<"N", "F", "E", "T">>) >>],
      [txt |-> <<"f", "e", "b", "r", "uacute", "a", "r">>,
        val |-> << BIN_Meaning(<<"f", "e", "b", "r", "uacute", "a", "r">>, 0, <<"k", "k">>, <<"a", "l", "m">>, <<"f", "e", "b", "r", "uacute", "a", "r">>, <<"N", "F", "E", "T">>) >>],
      [txt |-> <<"h", "u", "n", "d", "r", "u", "eth", "u", "m">>,
        val |-> << BIN_Meaning(<<"h", "u", "n", "d", "r", "a", "eth">>, 0, <<"h", "k">>, <<"a", "l", "m">>, <<"h", "u", "n", "d", "r", "u", "eth", "u", "m">>, <<"Thorn", "G", "F", "F", "T">>) >>],
      [txt |-> <<"thorn", "uacute", "s", "u", "n", "d", "a">>,
        val |-> << BIN_Meaning(<<"thorn", "uacute", "s", "u", "n", "d">>, 0, <<"k", "v", "k">>, <<"a", "l", "m">>, <<"thorn", "uacute", "s", "u", "n", "d", "a">>, <<"E", "F", "F", "T">>) >>],
      [txt |-> <<"h", "u", "n", "d", "r", "a", "eth">>,
        val |-> << BIN_Meaning(<<"h", "u", "n", "d", "r", "a", "eth">>, 0, <<"h", "k">>, <<"a", "l", "m">>, <<"h", "u", "n", "d", "r", "a", "eth">>, <<"N", "F", "E", "T">>) >>],
      [txt |-> <<"thorn", "r", "iacute", "t", "u", "g", "a", "s", "t", "i">>,
        val |-> << BIN_Meaning(<<"thorn", "r", "iacute", "t", "u", "g", "a", "s", "t", "i">>, 0, <<"l", "o">>, <<"a", "l", "m">>, <<"thorn", "r", "iacute", "t", "u", "g", "a", "s", "t", "i">>, <<"F", "V", "B", "-", "K", "K", "-", "N", "F", "E", "T">>) >>],
      [txt |-> <<"p", "r", "oacute", "s", "e", "n", "t">>,
        val |-> << BIN_Meaning(<<"p", "r", "oacute", "s", "e", "n", "t">>, 0, <<"h", "k">>, <<"a", "l", "m">>, <<"p", "r", "oacute", "s", "e", "n", "t">>, <<"N", "F", "E", "T">>) >>],
      [txt |-> <<"d", "a", "n", "s", "k", "a", "r">>,
        val |-> << BIN_Meaning(<<"d", "a", "n", "s", "k", "u", "r">>, 0, <<"l", "o">>, <<"a", "l", "m">>, <<"d", "a", "n", "s", "k", "a", "r">>, <<"F", "S", "B", "-", "K", "V", "K", "-", "N", "F", "F", "T">>) >>],
      [txt |-> <<"k", "r", "oacute", "n", "u", "r">>,
        val |-> << BIN_Meaning(<<"k", "r", "oacute", "n", "a">>, 0, <<"k", "v", "k">>, <<"a", "l", "m">>, <<"k", "r", "oacute", "n", "u", "r">>, <<"N", "F", "F", "T">>) >>],
      [txt |-> <<"o", "g">>,
        val |-> << BIN_Meaning(<<"o", "g">>, 0, <<"s", "t">>, <<"a", "l", "m">>, <<"o", "g">>, <<"-">>) >>],
      [txt |-> <<"o", "p", "i", "n", "b", "e", "r">>,
        val |-> << BIN_Meaning(<<"o", "p", "i", "n", "b", "e", "r">>, 0, <<"l", "o">>, <<"a", "l", "m">>, <<"o", "p", "i", "n", "b", "e", "r">>, <<"F", "S", "B", "-", "K", "K", "-", "N", "F", "E", "T">>) >>],
      [txt |-> <<"V", "e", "s", "t", "u", "r", "-", "B", "e", "r", "l", "iacute", "n">>,
        val |-> << BIN_Meaning(<<"V", "e", "s", "t", "u", "r", "-", "B", "e", "r", "l", "iacute", "n">>, 0, <<"k", "v", "k">>, <<"ouml", "r", "n">>, <<"V", "e", "s", "t", "u", "r", "-", "B", "e", "r", "l", "iacute", "n">>, <<"N", "F", "E", "T">>) >>],
      [txt |-> <<"B", "e", "r", "l", "iacute", "n">>,
        val |-> << BIN_Meaning(<<"B", "e", "r", "l", "iacute", "n">>, 0, <<"k", "v", "k">>, <<"ouml", "r", "n">>, <<"B", "e", "r", "l", "iacute", "n">>, <<"N", "F", "E", "T">>) >>] }

VARIABLE sp_long_first   \* the longer phrase is stored before the shorter one

\* StaticPhrases.DICT, an excerpt: 'til daemis' is phrase number 0 and
\* 'til daemis um' is phrase number 1; both are filed under their first word,
\* in the order in which they are stored.  'um thad bil' is phrase number 2
\* and the single word 'thad' is phrase number 3.
StaticPhrases_DICT ==
    { [txt |-> <<"t", "i", "l">>,
       val |-> IF sp_long_first
               THEN << [sl |-> << <<"d", "aelig", "m", "i", "s">>, <<"u", "m">> >>, ix |-> 1],
                       [sl |-> << <<"d", "aelig", "m", "i", "s">> >>, ix |-> 0] >>
               ELSE << [sl |-> << <<"d", "aelig", "m", "i", "s">> >>, ix |-> 0],
                       [sl |-> << <<"d", "aelig", "m", "i", "s">>, <<"u", "m">> >>, ix |-> 1] >>],
      [txt |-> <<"u", "m">>,
       val |-> << [sl |-> << <<"thorn", "a", "eth">>, <<"b", "i", "l">> >>, ix |-> 2] >>],
      [txt |-> <<"thorn", "a", "eth">>,
       val |-> << [sl |-> <<>>, ix |-> 3] >>] }

\* StaticPhrases.get_length(ix): the number of words of phrase ix
StaticPhrases_get_length(ix) == IF ix = 0 THEN 2 ELSE IF ix = 3 THEN 1 ELSE 3

\* the text of phrase ix
StaticPhrases_text(ix) ==
    IF ix = 0 THEN <<"t", "i", "l", " ", "d", "aelig", "m", "i", "s">>
    ELSE IF ix = 1 THEN <<"t", "i", "l", " ", "d", "aelig", "m", "i", "s", " ", "u", "m">>
    ELSE IF ix = 2 THEN <<"u", "m", " ", "thorn", "a", "eth", " ", "b", "i", "l">>
    ELSE <<"thorn", "a", "eth">>

\* StaticPhrases.get_meaning(ix): the declared meanings of phrase ix
StaticPhrases_get_meaning(ix) ==
    << BIN_Meaning(StaticPhrases_text(ix), 0, <<"a", "o">>, <<"f", "r", "a", "s", "i">>,
                   StaticPhrases_text(ix), <<"-">>) >>

\* the fields m.stofn, m.ordfl, m.fl and m.beyging of a meaning
Stofn(m) == m.l[1].s

Ordfl(m) == m.l[3].s

Fl(m) == m.l[4].s

Beyging(m) == m.l[6].s

\* sub in s, for two strings
Contains(s, sub) ==
    \E i \in 0..(Len(s) - Len(sub)) : SubSeq(s, i + 1, i + Len(sub)) = sub

\* key in table, and table[key], for a dict held as a set of [txt, val]
InTable(table, key) == \E r \in table : r.txt = key

TableValue(table, key) == (CHOOSE r \in table : r.txt = key).val

\* MONTHS as the dict the stem lists are: month name -> month number
MonthStems == { [txt |-> MONTHS[i], val |-> PyInt(i)] : i \in 1..Len(MONTHS) }

\* filter_func of match_stem_list: None, or the test m.ordfl in categories
NoFilter == { <<"*">> }

\* the loop of match_stem_list over the meanings: the value of the first
\* meaning whose lower-case stem is in stems and passes the filter
RECURSIVE match_meanings(_, _, _)
match_meanings(ms, stems, categories) ==
    IF ms = <<>> THEN PyNone
    ELSE IF /\ InTable(stems, Lower(Stofn(Head(ms))))
            /\ (categories = NoFilter \/ Ordfl(Head(ms)) \in categories)
    THEN TableValue(stems, Lower(Stofn(Head(ms))))
    ELSE match_meanings(Tail(ms), stems, categories)

match_stem_list(token, stems, categories) ==
    IF token.kind # "WORD" THEN PyNone
    ELSE IF Truthy(token.val) /\ match_meanings(token.val.l, stems, categories) # PyNone
    THEN match_meanings(token.val.l, stems, categories)
    ELSE IF InTable(stems, Lower(token.txt)) THEN TableValue(stems, Lower(token.txt))
    ELSE PyNone

\* case(bin_spec, default); "" stands for the default None
case(bin_spec) ==
    IF Contains(bin_spec, <<"N", "F">>) THEN <<"n", "f">>
    ELSE IF Contains(bin_spec, <<"Thorn", "F">>) THEN <<"thorn", "f">>
    ELSE IF Contains(bin_spec, <<"Thorn", "G", "F">>) THEN <<"thorn", "g", "f">>
    ELSE IF Contains(bin_spec, <<"E", "F">>) THEN <<"e", "f">>
    ELSE <<>>

\* the set that the loop of all_cases builds: every case once a meaning is
\* undeclined (fl == "ob"), else the cases of the meanings
CaseSet(token) ==
    IF token.kind # "WORD" \/ ~Truthy(token.val) THEN {}
    ELSE IF \E i \in 1..Len(token.val.l) : Fl(token.val.l[i]) = <<"o", "b">>
    THEN { ALL_CASES[i] : i \in 1..Len(ALL_CASES) }
    ELSE { case(Beyging(token.val.l[i])) : i \in 1..Len(token.val.l) } \ { <<>> }

\* list(set) for a set of strings; the order in which Python lists the
\* elements of a set is not modelled: the list follows the order of order
RECURSIVE ListOf(_, _)
ListOf(set, order) ==
    IF order = <<>> THEN <<>>
    ELSE (IF Head(order) \in set THEN <<PyStr(Head(order))>> ELSE <<>>)
         \o ListOf(set, Tail(order))

all_cases(token) == PyList(ListOf(CaseSet(token), ALL_CASES))

all_common_cases(token1, token2) ==
    PyList(ListOf(CaseSet(token1) \cap CaseSet(token2), ALL_CASES))

\* find_gender(m) of all_genders; "" stands for None
find_gender(m) ==
    IF Ordfl(m) \in { <<"k", "k">>, <<"k", "v", "k">>, <<"h", "k">> } THEN Ordfl(m)
    ELSE IF Contains(Beyging(m), <<"K", "K">>) THEN <<"k", "k">>
    ELSE IF Contains(Beyging(m), <<"K", "V", "K">>) THEN <<"k", "v", "k">>
    ELSE IF Contains(Beyging(m), <<"H", "K">>) THEN <<"h", "k">>
    ELSE <<>>

all_genders(token) ==
    IF token.kind # "WORD" THEN PyNone
    ELSE PyList(ListOf(IF Truthy(token.val)
                       THEN { find_gender(token.val.l[i]) : i \in 1..Len(token.val.l) }
                            \ { <<>> }
                       ELSE {},
                       << <<"k", "k">>, <<"k", "v", "k">>, <<"h", "k">> >>))

\* a * b for two numbers
PyMul(a, b) ==
    IF a.t = "int" /\ b.t = "int" THEN PyInt(a.n * b.n)
    ELSE PyFloat(a.n * b.n, a.d * b.d)

\* Python's 'a or b'
PyOr(a, b) == IF Truthy(a) THEN a ELSE b

\* TOK.Currency(w, iso, cases, genders, error)
Currency(w, iso, cases, genders, error) ==
    Tok("CURRENCY", w, PyTuple(<<PyStr(iso), cases, genders>>), error)

\* db.meanings(w) of BIN_Db: the meanings of the word form w, [] when unknown
BIN_Db_meanings(w) ==
    IF InTable(BIN_Db_forms, w) THEN PyList(TableValue(BIN_Db_forms, w)) ELSE PyList(<<>>)

\* db.lookup_word(w, at_sentence_start, auto_uppercase): the word and its
\* meanings; at the start of a sentence an unknown capitalised word is looked
\* up in lower case
BIN_Db_lookup_word(w, at_sentence_start, auto_uppercase) ==
    IF ~InTable(BIN_Db_forms, w) /\ at_sentence_start /\ InTable(BIN_Db_forms, Lower(w))
    THEN [w |-> w, m |-> BIN_Db_meanings(Lower(w))]
    ELSE [w |-> w, m |-> BIN_Db_meanings(w)]

\* parse_errors_1(token_stream): the loop with token as the current token and
\* stream as what the upstream has not yielded yet
RECURSIVE parse_errors_1_loop(_, _, _)
parse_errors_1_loop(token, stream, out) ==
    IF stream = <<>> THEN Append(out, token)
    ELSE LET next_token == Head(stream)
         IN  IF /\ token = next_token
                /\ token.txt \notin ALLOWED_MULTIPLES
                /\ token.kind = "WORD"
             THEN \* word reduplication
                  parse_errors_1_loop(
                      Word(next_token.txt, PyNone,
                           compound_error(<<PyList(<<PyInt(2)>>), token.error,
                                            next_token.error>>)),
                      Tail(stream), out)
             ELSE IF token.txt # NoneTxt /\ InTable(NOT_COMPOUNDS, Lower(token.txt))
             THEN \* a wrongly compounded word: its parts are yielded with error=4
                  parse_errors_1_loop(
                      next_token, Tail(stream),
                      out \o [i \in 1..Len(TableValue(NOT_COMPOUNDS, Lower(token.txt))) |->
                                 Word(TableValue(NOT_COMPOUNDS, Lower(token.txt))[i], PyNone,
                                      PyInt(4))])
             ELSE IF <<token.txt, next_token.txt>> \in SPLIT_COMPOUNDS
             THEN \* a wrongly split compound
                  parse_errors_1_loop(
                      Word(token.txt \o next_token.txt, PyNone,
                           compound_error(<<token.error, PyList(<<PyInt(5)>>),
                                            next_token.error>>)),
                      Tail(stream), out)
             ELSE parse_errors_1_loop(next_token, Tail(stream), Append(out, token))

parse_errors_1(token_stream) ==
    IF token_stream = <<>> THEN <<>>
    ELSE parse_errors_1_loop(Head(token_stream), Tail(token_stream), <<>>)

\* test(token_stream): every token, and the last token once more
test(token_stream) ==
    IF token_stream = <<>> THEN <<>> ELSE Append(token_stream, Last(token_stream))

\* what 'yield tq' of parse_static_phrases puts on the stream: a list
ListItem == Tok("list", NoneTxt, PyNone, PyNone)

\* " ".join(words)
RECURSIVE Join(_)
Join(words) ==
    IF words = <<>> THEN <<>>
    ELSE IF Len(words) = 1 THEN words[1]
    ELSE words[1] \o <<" ">> \o Join(Tail(words))

\* the entries of state[wm], in the order in which they were added
RECURSIVE StateOf(_, _)
StateOf(state, wm) ==
    IF state = <<>> THEN <<>>
    ELSE (IF Head(state).wrd = wm THEN <<Head(state)>> ELSE <<>>) \o StateOf(Tail(state), wm)

\* add_to_state(sl, ix) for every entry of slist
add_to_state(slist) ==
    [i \in 1..Len(slist) |->
        [wrd |-> slist[i].sl[1], sl |-> Tail(slist[i].sl), ix |-> slist[i].ix]]

\* the first entry of slist that has no subsequent word, 0 when there is none
Complete(slist) ==
    IF \E i \in 1..Len(slist) : slist[i].sl = <<>>
    THEN CHOOSE i \in 1..Len(slist) :
             slist[i].sl = <<>> /\ \A j \in 1..(i - 1) : slist[j].sl # <<>>
    ELSE 0

\* parse_static_phrases, lines 2559-2592: the token is looked up among the
\* words the state expects.  s is [token, w, wo, tq, state (the new state),
\* out, raised]; token is NoToken once the token is in the queue.
sp_Expected(token, tq, state, out) ==
    LET wo == token.txt
        w == Lower(wo)
        wm == IF wo # w /\ StateOf(state, wo) # <<>> THEN wo
              ELSE IF StateOf(state, w) # <<>> THEN w
              ELSE <<>>
        slist == StateOf(state, wm)
        k == Complete(slist)
        tq1 == Append(tq, token)
        plen == StaticPhrases_get_length(slist[k].ix)
        extra == IF Len(tq1) > plen THEN Len(tq1) - plen ELSE 0
        phrase == SubSeq(tq1, extra + 1, Len(tq1))
    IN  IF wm = <<>>
        THEN [token |-> token, w |-> w, wo |-> wo, tq |-> <<>>, state |-> <<>>,
              out |-> out \o tq, raised |-> ""]
        ELSE IF k = 0
        THEN [token |-> NoToken, w |-> w, wo |-> wo, tq |-> tq1,
              state |-> add_to_state(slist), out |-> out, raised |-> ""]
        ELSE [token |-> NoToken, w |-> <<>>, wo |-> <<>>, tq |-> <<>>, state |-> <<>>,
              out |-> out \o SubSeq(tq1, 1, extra)
                         \o << Word(Join([i \in 1..Len(phrase) |-> phrase[i].txt]),
                                    PyList(StaticPhrases_get_meaning(slist[k].ix)),
                                    PyList([i \in 1..Len(phrase) |-> phrase[i].error])) >>,
              raised |-> ""]

\* lines 2594-2624: the token is looked up among the words that start a phrase
sp_Starting(s, auto_uppercase) ==
    LET wm == IF auto_uppercase /\ Len(s.wo) = 1 /\ s.w = s.wo THEN <<>>
              ELSE IF s.wo # s.w /\ InTable(StaticPhrases_DICT, s.wo) THEN s.wo
              ELSE IF InTable(StaticPhrases_DICT, s.w) THEN s.w
              ELSE <<>>
        slist == TableValue(StaticPhrases_DICT, wm)
        k == Complete(slist)
    IN  IF wm = <<>>
        THEN IF s.token # NoToken THEN [s EXCEPT !.out = Append(@, s.token)] ELSE s
        ELSE IF k = 0
        THEN [s EXCEPT !.state = @ \o add_to_state(slist),
                       !.tq = IF s.token # NoToken THEN Append(@, s.token) ELSE @]
        ELSE \* a single word is replaced: 'yield tq' puts the queue itself on the
             \* stream, once for every queued token; token is None when the word
             \* was queued
             IF s.token = NoToken
             THEN [s EXCEPT !.out = @ \o [i \in 1..Len(s.tq) |-> ListItem],
                            !.tq = <<>>,
                            !.raised = "AttributeError"]
             ELSE [s EXCEPT !.out = (@ \o [i \in 1..Len(s.tq) |-> ListItem])
                                    \o << Word(s.token.txt,
                                               PyList(StaticPhrases_get_meaning(slist[k].ix)),
                                               NoError) >>,
                            !.tq = <<>>,
                            !.state = <<>>]

\* parse_static_phrases(token_stream, auto_uppercase): the tokens yielded and
\* the exception raised ("" when none)
RECURSIVE parse_static_phrases_loop(_, _, _, _, _)

\* the loop goes on with the state s unless an exception was raised
sp_Continue(stream, s, auto_uppercase) ==
    IF s.raised # "" THEN [out |-> s.out, raised |-> s.raised]
    ELSE parse_static_phrases_loop(stream, s.tq, s.state, s.out, auto_uppercase)

parse_static_phrases_loop(stream, tq, state, out, auto_uppercase) ==
    IF stream = <<>> THEN [out |-> out \o tq, raised |-> ""]
    ELSE IF Head(stream).txt = NoneTxt
    THEN parse_static_phrases_loop(Tail(stream), <<>>, <<>>,
                                   out \o tq \o <<Head(stream)>>, auto_uppercase)
    ELSE sp_Continue(Tail(stream),
                     sp_Starting(sp_Expected(Head(stream), tq, state, out), auto_uppercase),
                     auto_uppercase)

parse_static_phrases(token_stream, auto_uppercase) ==
    parse_static_phrases_loop(token_stream, <<>>, <<>>, <<>>, auto_uppercase)

VARIABLES
    sp_input,    \* the tokens handed to parse_static_phrases (history)
    sp_auto,     \* auto_uppercase
    sp_stream,   \* what next(token_stream) has not returned yet
    sp_tq,       \* local: tq, the token queue
    sp_state,    \* local: state, the phrases being considered
    sp_out,      \* tokens yielded so far
    sp_pc,       \* "idle", "loop", "done", "raised"
    sp_exc       \* the exception that left the generator

sp_vars == <<sp_long_first, sp_input, sp_auto, sp_stream, sp_tq, sp_state, sp_out, sp_pc,
             sp_exc>>

sp_Idle ==
    /\ sp_long_first = FALSE
    /\ sp_input = <<>>
    /\ sp_auto = FALSE
    /\ sp_stream = <<>>
    /\ sp_tq = <<>>
    /\ sp_state = <<>>
    /\ sp_out = <<>>
    /\ sp_pc = "idle"
    /\ sp_exc = ""

\* the tokens the input of parse_static_phrases is drawn from
StaticAlphabet ==
    { Word(<<"t", "i", "l">>, PyNone, NoError),
      Word(<<"T", "i", "l">>, PyNone, NoError),
      Word(<<"d", "aelig", "m", "i", "s">>, PyNone, NoError),
      Word(<<"u", "m">>, PyNone, NoError),
      Word(<<"thorn", "a", "eth">>, PyNone, NoError),
      Word(<<"b", "i", "l">>, PyNone, NoError),
      Punctuation(<<".">>, NoError),
      Begin_Sentence }

\* lines 2520-2522: tq = [], state = defaultdict(list), pdict = StaticPhrases.DICT
sp_Init ==
    /\ sp_long_first \in BOOLEAN
    /\ sp_input \in SeqsUpTo(StaticAlphabet, MaxStaticLen)
    /\ sp_auto \in BOOLEAN
    /\ sp_stream = sp_input
    /\ sp_tq = <<>>
    /\ sp_state = <<>>
    /\ sp_out = <<>>
    /\ sp_pc = "loop"
    /\ sp_exc = ""

\* one pass of 'while True', lines 2525-2627
sp_Loop ==
    /\ sp_pc = "loop"
    /\ sp_stream # <<>>
    /\ sp_stream' = Tail(sp_stream)
    /\ IF Head(sp_stream).txt = NoneTxt
       THEN /\ sp_out' = sp_out \o sp_tq \o <<Head(sp_stream)>>
            /\ sp_tq' = <<>>
            /\ sp_state' = <<>>
            /\ UNCHANGED <<sp_pc, sp_exc>>
       ELSE \E s \in { sp_Starting(sp_Expected(Head(sp_stream), sp_tq, sp_state, sp_out),
                                    sp_auto) } :
                /\ sp_out' = s.out
                /\ sp_tq' = s.tq
                /\ sp_state' = s.state
                /\ sp_pc' = IF s.raised # "" THEN "raised" ELSE "loop"
                /\ sp_exc' = s.raised
    /\ UNCHANGED <<sp_long_first, sp_input, sp_auto>>

\* lines 2629-2634: the stream is exhausted, the queue is yielded
sp_Final ==
    /\ sp_pc = "loop"
    /\ sp_stream = <<>>
    /\ sp_out' = sp_out \o sp_tq
    /\ sp_tq' = <<>>
    /\ sp_pc' = "done"
    /\ UNCHANGED <<sp_long_first, sp_input, sp_auto, sp_stream, sp_state, sp_exc>>

\* annotate(token_stream, auto_uppercase): the tokens yielded and the exception
\* raised; a list on the stream has no attribute kind
RECURSIVE annotate_loop(_, _, _, _)
annotate_loop(stream, at_sentence_start, out, auto_uppercase) ==
    IF stream = <<>> THEN [out |-> out, raised |-> ""]
    ELSE IF Head(stream) = ListItem THEN [out |-> out, raised |-> "AttributeError"]
    ELSE IF Head(stream).kind # "WORD"
    THEN annotate_loop(Tail(stream),
                       IF \/ Head(stream).kind = "S_BEGIN"
                          \/ (Head(stream).kind = "PUNCTUATION" /\ Head(stream).txt = <<":">>)
                       THEN TRUE
                       ELSE IF Head(stream).kind \notin {"PUNCTUATION", "ORDINAL"} THEN FALSE
                       ELSE at_sentence_start,
                       Append(out, Head(stream)), auto_uppercase)
    ELSE IF Head(stream).val = PyNone
    THEN annotate_loop(Tail(stream), FALSE,
                       Append(out, Word(BIN_Db_lookup_word(Head(stream).txt, at_sentence_start,
                                                            auto_uppercase).w,
                                        BIN_Db_lookup_word(Head(stream).txt, at_sentence_start,
                                                            auto_uppercase).m,
                                        NoError)),
                       auto_uppercase)
    ELSE annotate_loop(Tail(stream), FALSE, Append(out, Head(stream)), auto_uppercase)

annotate(token_stream, auto_uppercase) ==
    annotate_loop(token_stream, FALSE, <<>>, auto_uppercase)

VARIABLES
    p1_input,    \* the tokens annotate yields (history)
    p1_upexc,    \* the exception the upstream raises after them ("" when none)
    p1_stream,   \* what next(token_stream) has not returned yet
    p1_out,      \* tokens yielded so far
    p1_pc,       \* "idle", "start", "loop", "final", "done", "raised"
    p1_token,    \* local: token
    p1_exc       \* the exception that left the generator

p1_vars == <<p1_input, p1_upexc, p1_stream, p1_out, p1_pc, p1_token, p1_exc>>

p1_Idle ==
    /\ p1_input = <<>>
    /\ p1_upexc = ""
    /\ p1_stream = <<>>
    /\ p1_out = <<>>
    /\ p1_pc = "idle"
    /\ p1_token = NoToken
    /\ p1_exc = ""

\* The local state of one pass of the loop is a record st: token, next_token,
\* multiplier, the rest of the stream, the tokens yielded so far, the
\* exception raised ("" when none) and the exception the upstream raises at
\* the end of the stream.

\* next(token_stream) at the end of the stream
EndOfStream(st) ==
    [st EXCEPT !.raised = IF st.upexc # "" THEN st.upexc ELSE "StopIteration"]

\* next_token = next(token_stream)
p1_PullNext(st) ==
    IF st.stream = <<>> THEN EndOfStream(st)
    ELSE [st EXCEPT !.next_token = Head(st.stream), !.stream = Tail(st.stream)]

\* token = t; next_token = next(token_stream), where t carries
\* compound_error(errors)
p1_Fuse(st, t, errors) ==
    IF compound_error_raises(errors) THEN [st EXCEPT !.raised = "TypeError"]
    ELSE p1_PullNext([st EXCEPT !.token = [t EXCEPT !.error = compound_error(errors)]])

\* number(tok): the number a word denotes, or None
number(tok) ==
    IF Lower(tok.txt) = <<"aacute", "t", "t", "u">> THEN PyNone
    ELSE match_stem_list(tok, MULTIPLIERS, NUMBER_CATEGORIES)

\* convert_to_num(token)
convert_to_num(token, multiplier) ==
    IF multiplier # PyNone
    THEN Number(token.txt, multiplier, all_cases(token), all_genders(token), token.error)
    ELSE token

\* "ef" in next_case
HasEf(cases) == \E i \in 1..Len(cases.l) : cases.l[i] = PyStr(<<"e", "f">>)

\* the fused tokens of the three branches of the multiplier loop, for the
\* number num made of token
MultipliedNumber(st, num) ==
    Number(num.txt \o <<" ">> \o st.next_token.txt,
           PyMul(num.val.l[1], number(st.next_token)),
           IF HasEf(all_cases(st.next_token))
           THEN PyOr(all_cases(st.token), all_cases(st.next_token))
           ELSE all_cases(st.next_token),
           IF HasEf(all_cases(st.next_token))
           THEN PyOr(all_genders(st.token), all_genders(st.next_token))
           ELSE all_genders(st.next_token),
           NoError)

AbbreviatedAmount(st, num) ==
    Amount(num.txt \o <<" ">> \o st.next_token.txt, <<"I", "S", "K">>,
           PyMul(num.val.l[1], TableValue(AMOUNT_ABBREV, st.next_token.txt)),
           num.val.l[2], num.val.l[3], NoError)

WordPercent(st, num) ==
    Percent(num.txt \o <<" ">> \o st.next_token.txt, num.val.l[1],
            all_cases(st.next_token), all_genders(st.next_token), NoError)

\* lines 1995-2046: [number] 'hundred|thousand|million', [number] amount
\* abbreviation, [number] 'percent'
RECURSIVE p1_Multipliers(_)
p1_Multipliers(st) ==
    IF st.raised # "" THEN st
    ELSE IF ~(/\ (st.token.kind = "NUMBER" \/ st.multiplier # PyNone)
              /\ st.next_token.kind = "WORD")
    THEN st
    ELSE IF number(st.next_token) # PyNone
    THEN p1_Multipliers(
             [p1_Fuse(st, MultipliedNumber(st, convert_to_num(st.token, st.multiplier)),
                      <<st.token.error, st.next_token.error>>)
                 EXCEPT !.multiplier = PyNone])
    ELSE IF InTable(AMOUNT_ABBREV, st.next_token.txt)
    THEN p1_Multipliers(
             [p1_Fuse(st, AbbreviatedAmount(st, convert_to_num(st.token, st.multiplier)),
                      <<st.token.error, st.next_token.error>>)
                 EXCEPT !.multiplier = PyNone])
    ELSE IF match_stem_list(st.next_token, PERCENTAGES, NoFilter) # PyNone
    THEN p1_Multipliers(
             [p1_Fuse(st, WordPercent(st, convert_to_num(st.token, st.multiplier)),
                      <<st.token.error, st.next_token.error>>)
                 EXCEPT !.multiplier = PyNone])
    ELSE st

\* lines 2049-2055: [number | ordinal | day word] [month name].  The day of a
\* token that is not an ORDINAL is DAYS_OF_MONTH[token.txt]
p1_DayMonth(st) ==
    IF st.raised # "" THEN st
    ELSE IF /\ \/ st.token.kind \in {"ORDINAL", "NUMBER"}
               \/ InTable(DAYS_OF_MONTH, st.token.txt)
            /\ st.next_token.kind = "WORD"
            /\ match_stem_list(st.next_token, MonthStems, NoFilter) # PyNone
    THEN IF st.token.kind # "ORDINAL" /\ ~InTable(DAYS_OF_MONTH, st.token.txt)
         THEN [st EXCEPT !.raised = "KeyError"]
         ELSE p1_Fuse(st,
                  Date(st.token.txt \o <<" ">> \o st.next_token.txt, PyInt(0),
                       match_stem_list(st.next_token, MonthStems, NoFilter),
                       IF st.token.kind = "ORDINAL" THEN st.token.val
                       ELSE TableValue(DAYS_OF_MONTH, st.token.txt),
                       NoError),
                  <<st.token.error, st.next_token.error>>)
    ELSE st

\* int(next_token.txt) raises ValueError unless the text is an integer
IntRaises(t) == t.kind # "YEAR" /\ ~IsDigits(t.txt)

\* next_token.val if next_token.kind == TOK.YEAR else int(next_token.txt)
\* if 1776 <= int(next_token.txt) <= 2100 else 0
YearOf(t) ==
    IF t.kind = "YEAR" THEN t.val
    ELSE IF 1776 <= StrToInt(t.txt) /\ StrToInt(t.txt) <= 2100 THEN PyInt(StrToInt(t.txt))
    ELSE PyInt(0)

\* lines 2058-2065: [DATE] [year]
p1_DateYear(st) ==
    IF st.raised # "" THEN st
    ELSE IF /\ st.token.kind = "DATE"
            /\ st.next_token.kind \in {"NUMBER", "YEAR"}
            /\ ~Truthy(st.token.val.l[1])
    THEN IF IntRaises(st.next_token) THEN [st EXCEPT !.raised = "ValueError"]
         ELSE p1_Fuse(st,
                  Date(st.token.txt \o <<" ">> \o st.next_token.txt,
                       YearOf(st.next_token), st.token.val.l[2], st.token.val.l[3], NoError),
                  <<st.token.error, st.next_token.error>>)
    ELSE st

\* lines 2068-2074: [month name] [year|YEAR]
p1_MonthYear(st) ==
    IF st.raised # "" THEN st
    ELSE IF /\ st.token.kind = "WORD"
            /\ st.next_token.kind \in {"NUMBER", "YEAR"}
            /\ match_stem_list(st.token, MonthStems, NoFilter) # PyNone
    THEN IF IntRaises(st.next_token) THEN [st EXCEPT !.raised = "ValueError"]
         ELSE p1_Fuse(st,
                  Date(st.token.txt \o <<" ">> \o st.next_token.txt,
                       YearOf(st.next_token),
                       match_stem_list(st.token, MonthStems, NoFilter), PyInt(0), NoError),
                  <<st.token.error, st.next_token.error>>)
    ELSE st

\* lines 2081-2084: a single month becomes a DATEREL
p1_SingleMonth(st) ==
    IF st.raised # "" THEN st
    ELSE IF st.token.kind = "WORD" /\ match_stem_list(st.token, MonthStems, NoFilter) # PyNone
    THEN [st EXCEPT !.token = Daterel(st.token.txt, PyInt(0),
                                      match_stem_list(st.token, MonthStems, NoFilter),
                                      PyInt(0), st.token.error)]
    ELSE st

\* lines 2087-2091 with the DATEREL branch left out
p1_SplitDate_absolute_only(st) ==
    IF st.raised # "" THEN st
    ELSE IF /\ st.token.kind = "DATE"
            /\ Truthy(st.token.val.l[1])
            /\ Truthy(st.token.val.l[2])
            /\ Truthy(st.token.val.l[3])
    THEN [st EXCEPT !.token = Dateabs(st.token.txt, st.token.val.l[1], st.token.val.l[2],
                                      st.token.val.l[3], st.token.error)]
    ELSE st

\* lines 2087-2091: DATE is split into DATEABS and DATEREL
p1_SplitDate(st) ==
    IF st.raised # "" THEN st
    ELSE IF st.token.kind = "DATE"
    THEN IF /\ Truthy(st.token.val.l[1])
            /\ Truthy(st.token.val.l[2])
            /\ Truthy(st.token.val.l[3])
         THEN [st EXCEPT !.token = Dateabs(st.token.txt, st.token.val.l[1],
                                           st.token.val.l[2], st.token.val.l[3],
                                           st.token.error)]
         ELSE [st EXCEPT !.token = Daterel(st.token.txt, st.token.val.l[1],
                                           st.token.val.l[2], st.token.val.l[3],
                                           st.token.error)]
    ELSE st

\* lines 2094-2101: [date] [time] (absolute)
p1_TimestampAbs(st) ==
    IF st.raised # "" THEN st
    ELSE IF st.token.kind = "DATEABS" /\ st.next_token.kind = "TIME"
    THEN p1_Fuse(st,
             Timestampabs(st.token.txt \o <<" ">> \o st.next_token.txt,
                          st.token.val.l[1], st.token.val.l[2], st.token.val.l[3],
                          st.next_token.val.l[1], st.next_token.val.l[2],
                          st.next_token.val.l[3], NoError),
             <<st.token.error, st.next_token.error>>)
    ELSE st

\* lines 2103-2110: [date] [time] (relative)
p1_TimestampRel(st) ==
    IF st.raised # "" THEN st
    ELSE IF st.token.kind = "DATEREL" /\ st.next_token.kind = "TIME"
    THEN p1_Fuse(st,
             Timestamprel(st.token.txt \o <<" ">> \o st.next_token.txt,
                          st.token.val.l[1], st.token.val.l[2], st.token.val.l[3],
                          st.next_token.val.l[1], st.next_token.val.l[2],
                          st.next_token.val.l[3], NoError),
             <<st.token.error, st.next_token.error>>)
    ELSE st

\* ISO_CURRENCIES[(nat, cur)], "" when the pair is not a key
IsoCurrency(nat, cur) ==
    IF \E r \in ISO_CURRENCIES : r.nat = nat.s /\ r.cur = cur.s
    THEN (CHOOSE r \in ISO_CURRENCIES : r.nat = nat.s /\ r.cur = cur.s).iso
    ELSE <<>>

\* lines 2114-2125: currency name doublets
p1_CurrencyDoublet(st) ==
    IF st.raised # "" THEN st
    ELSE IF /\ st.token.kind = "WORD"
            /\ st.next_token.kind = "WORD"
            /\ match_stem_list(st.token, NATIONALITIES, NoFilter) # PyNone
            /\ match_stem_list(st.next_token, CURRENCIES, NoFilter) # PyNone
            /\ IsoCurrency(match_stem_list(st.token, NATIONALITIES, NoFilter),
                           match_stem_list(st.next_token, CURRENCIES, NoFilter)) # <<>>
    THEN p1_Fuse(st,
             Currency(st.token.txt \o <<" ">> \o st.next_token.txt,
                      IsoCurrency(match_stem_list(st.token, NATIONALITIES, NoFilter),
                                  match_stem_list(st.next_token, CURRENCIES, NoFilter)),
                      all_common_cases(st.token, st.next_token),
                      all_genders(st.next_token), NoError),
             <<st.token.error, st.next_token.error>>)
    ELSE st

\* [m for m in ms if m.ordfl == "lo" or m.ordfl == "ao"]
RECURSIVE AdjectiveMeanings(_)
AdjectiveMeanings(ms) ==
    IF ms = <<>> THEN <<>>
    ELSE (IF Ordfl(Head(ms)) \in { <<"l", "o">>, <<"a", "o">> } THEN <<Head(ms)>> ELSE <<>>)
         \o AdjectiveMeanings(Tail(ms))

\* lines 2135-2158: the token after the composite hyphen is not 'og'/'eda'
p1_CompositeWord(st, og_token) ==
    IF og_token.kind = "WORD" /\ Lower(st.token.txt) \in ADJECTIVE_PREFIXES
    THEN IF og_token.val.t # "list" THEN [st EXCEPT !.raised = "TypeError"]
         ELSE p1_Fuse(st,
                  Word(st.token.txt \o <<"-">> \o og_token.txt,
                       PyList(AdjectiveMeanings(og_token.val.l)), NoError),
                  <<st.token.error, st.next_token.error>>)
    ELSE IF /\ og_token.kind = "WORD"
            /\ Truthy(BIN_Db_meanings(st.token.txt \o <<"-">> \o og_token.txt))
    THEN p1_Fuse(st,
             Word(st.token.txt \o <<"-">> \o og_token.txt,
                  BIN_Db_meanings(st.token.txt \o <<"-">> \o og_token.txt), NoError),
             <<st.token.error, st.next_token.error>>)
    ELSE [st EXCEPT !.out = Append(@, st.token),
                    !.token = Punctuation(<<HYPHEN>>, st.token.error),
                    !.next_token = og_token]

\* lines 2160-2177: 'og'/'eda' follows the composite hyphen
p1_CompositePair(st, og_token) ==
    IF st.stream = <<>> THEN EndOfStream(st)
    ELSE IF Head(st.stream).kind # "WORD"
    THEN [st EXCEPT !.stream = Tail(@),
                    !.out = @ \o <<st.token, Punctuation(<<HYPHEN>>, NoError)>>,
                    !.token = og_token,
                    !.next_token = Head(st.stream)]
    ELSE p1_Fuse([st EXCEPT !.stream = Tail(@)],
             Word(st.token.txt \o <<"-", " ">> \o og_token.txt \o <<" ">>
                      \o Head(st.stream).txt,
                  Head(st.stream).val, NoError),
             <<st.token.error, st.next_token.error, Head(st.stream).error>>)

\* lines 2131-2177: composites
p1_Composite(st) ==
    IF st.raised # "" THEN st
    ELSE IF /\ st.token.kind = "WORD"
            /\ st.next_token.kind = "PUNCTUATION"
            /\ st.next_token.txt = <<COMPOSITE_HYPHEN>>
    THEN IF st.stream = <<>> THEN EndOfStream(st)
         ELSE IF \/ Head(st.stream).kind # "WORD"
                 \/ Head(st.stream).txt \notin { <<"o", "g">>, <<"e", "eth", "a">> }
         THEN p1_CompositeWord([st EXCEPT !.stream = Tail(@)], Head(st.stream))
         ELSE p1_CompositePair([st EXCEPT !.stream = Tail(@)], Head(st.stream))
    ELSE st

\* multiplier = number(token) if token.kind == TOK.WORD else None
p1_Multiplier(st) ==
    IF st.raised # "" \/ st.token.kind # "WORD" THEN st
    ELSE [st EXCEPT !.multiplier = number(st.token)]

\* the body of 'while True', lines 1976-2177
p1_Body(st) ==
    p1_Composite(p1_CurrencyDoublet(p1_TimestampRel(p1_TimestampAbs(p1_SplitDate(
        p1_SingleMonth(p1_MonthYear(p1_DateYear(p1_DayMonth(p1_Multipliers(
            p1_Multiplier(p1_PullNext(st))))))))))))

\* what the stages between parse_sentences and parse_phrases_1 make of the
\* tokens: parse_errors_1, test, parse_static_phrases and annotate (lines
\* 2954-2971).  The exception of the earlier stage is the one raised when the
\* later stage raised none.
Annotated(s, auto_uppercase) ==
    [annotate(s.out, auto_uppercase) EXCEPT
        !.raised = IF @ # "" THEN @ ELSE s.raised]

\* token_stream of tokenize() as parse_phrases_1 receives it
p1_Upstream ==
    /\ ps_pc = "done"
    /\ p1_pc = "idle"
    /\ \E auto_uppercase \in BOOLEAN :
           \E r \in { Annotated(parse_static_phrases(test(parse_errors_1(ps_out)),
                                                     auto_uppercase),
                                auto_uppercase) } :
               /\ p1_input' = r.out
               /\ p1_stream' = r.out
               /\ p1_upexc' = r.raised
    /\ p1_pc' = "start"
    /\ UNCHANGED <<p1_out, p1_token, p1_exc>>

\* token = next(token_stream), line 1974
p1_Start ==
    /\ p1_pc = "start"
    /\ IF p1_stream = <<>>
       THEN /\ p1_pc' = IF p1_upexc # "" THEN "raised" ELSE "final"
            /\ p1_exc' = p1_upexc
            /\ UNCHANGED <<p1_token, p1_stream>>
       ELSE /\ p1_pc' = "loop"
            /\ p1_token' = Head(p1_stream)
            /\ p1_stream' = Tail(p1_stream)
            /\ p1_exc' = ""
    /\ UNCHANGED <<p1_input, p1_upexc, p1_out>>

\* one pass of 'while True'.  StopIteration leaves the loop for the lines
\* after the try block; any other exception leaves the generator.
p1_Loop ==
    /\ p1_pc = "loop"
    /\ \E st \in { p1_Body([token |-> p1_token, next_token |-> NoToken,
                            multiplier |-> PyNone, stream |-> p1_stream, out |-> p1_out,
                            raised |-> "", upexc |-> p1_upexc]) } :
           /\ p1_stream' = st.stream
           /\ IF st.raised = ""
              THEN /\ p1_out' = Append(st.out, st.token)
                   /\ p1_token' = st.next_token
                   /\ p1_pc' = "loop"
                   /\ p1_exc' = ""
              ELSE /\ p1_out' = st.out
                   /\ p1_token' = st.token
                   /\ p1_pc' = IF st.raised = "StopIteration" THEN "final" ELSE "raised"
                   /\ p1_exc' = IF st.raised = "StopIteration" THEN "" ELSE st.raised
    /\ UNCHANGED <<p1_input, p1_upexc>>

\* lines 2186-2188: the final token (previous lookahead)
p1_Final ==
    /\ p1_pc = "final"
    /\ p1_out' = IF p1_token # NoToken THEN Append(p1_out, p1_token) ELSE p1_out
    /\ p1_pc' = "done"
    /\ UNCHANGED <<p1_input, p1_upexc, p1_stream, p1_token, p1_exc>>

\* lines 2253-2270 of parse_phrases_2: [time] [date] becomes a time stamp with
\* the y, mo and d of the date
p2_Timestamp(token, next_token) ==
    IF next_token.kind = "DATEABS"
    THEN Timestampabs(token.txt \o <<" ">> \o next_token.txt,
                      next_token.val.l[1], next_token.val.l[2], next_token.val.l[3],
                      token.val.l[1], token.val.l[2], token.val.l[3],
                      compound_error(<<token.error, next_token.error>>))
    ELSE Timestamprel(token.txt \o <<" ">> \o next_token.txt,
                      next_token.val.l[1], next_token.val.l[2], next_token.val.l[3],
                      token.val.l[1], token.val.l[2], token.val.l[3],
                      compound_error(<<token.error, next_token.error>>))

\* what the loop of parse_phrases_2 (lines 2206-2510) does to the date and
\* time tokens of its stream: the one-token lookahead, the time stamps, the
\* yield and the final token.  Its other branches make AMOUNT tokens of
\* NUMBER tokens and PERSON tokens of WORD tokens and are left out.
RECURSIVE parse_phrases_2_timestamps(_, _, _)
parse_phrases_2_timestamps(token, stream, out) ==
    IF stream = <<>> THEN Append(out, token)
    ELSE IF token.kind = "TIME" /\ Head(stream).kind \in {"DATEABS", "DATEREL"}
    THEN IF compound_error_raises(<<token.error, Head(stream).error>>) THEN out
         ELSE IF Tail(stream) = <<>> THEN Append(out, p2_Timestamp(token, Head(stream)))
         ELSE parse_phrases_2_timestamps(Head(Tail(stream)), Tail(Tail(stream)),
                                         Append(out, p2_Timestamp(token, Head(stream))))
    ELSE parse_phrases_2_timestamps(Head(stream), Tail(stream), Append(out, token))

\* the date and time tokens after parse_phrases_2 has read what
\* parse_phrases_1 has yielded
p2_out ==
    IF p1_out = <<>> THEN <<>>
    ELSE parse_phrases_2_timestamps(Head(p1_out), Tail(p1_out), <<>>)

\* the texts of the numeric tokens: 31/2, 29.2.2020, 2021, 31, 12:30 and 1,5
PhrDigitTexts ==
    << <<"3", "1", "/", "2">>,
       <<"2", "9", ".", "2", ".", "2", "0", "2", "0">>,
       <<"2", "0", "2", "1">>,
       <<"3", "1">>,
       <<"1", "2", ":", "3", "0">>,
       <<"1", ",", "5">> >>

\* the tokens the input of the phrase passes is drawn from, as parse_particles
\* hands them to parse_sentences: dg[i] is the token parse_digits makes of
\* PhrDigitTexts[i], the words have no meanings yet
PhrAlphabet(dg) ==
    { dg[1],
      dg[2],
      dg[3],
      dg[4],
      dg[5],
      Ordinal(<<"3", "0", ".">>, PyInt(30), NoError),
      Word(MONTHS[2], PyNone, NoError),
      Word(<<"h", "u", "n", "d", "r", "a", "eth">>, PyNone, NoError),
      Punctuation(<<".">>, NoError),
      End_Paragraph }

\* token sequences that reach the branches the short sequences cannot
PhrSamples(dg) ==
    { << Ordinal(<<"3", "0", ".">>, PyInt(30), NoError),
         Word(MONTHS[2], PyNone, NoError),
         dg[3],
         dg[5] >>,
      << Word(<<"thorn", "r", "iacute", "t", "u", "g", "a", "s", "t", "i">>, PyNone, NoError),
         Word(MONTHS[2], PyNone, NoError),
         dg[3] >>,
      << dg[4],
         Word(<<"m", "i", "l", "l", "j", "oacute", "n">>, PyNone, NoError) >>,
      << dg[4],
         Word(<<"p", "r", "oacute", "s", "e", "n", "t">>, PyNone, NoError) >>,
      << dg[4],
         Word(<<"m", ".", "k", "r", ".">>, PyNone, NoError) >>,
      << Word(<<"d", "a", "n", "s", "k", "a", "r">>, PyNone, NoError),
         Word(<<"k", "r", "oacute", "n", "u", "r">>, PyNone, NoError) >>,
      << Word(<<"V", "e", "s", "t", "u", "r">>, PyNone, NoError),
         Punctuation(<<COMPOSITE_HYPHEN>>, NoError),
         Word(<<"o", "g">>, PyNone, NoError),
         Word(<<"B", "e", "r", "l", "iacute", "n">>, PyNone, NoError) >>,
      << Word(<<"V", "e", "s", "t", "u", "r">>, PyNone, NoError),
         Punctuation(<<COMPOSITE_HYPHEN>>, NoError),
         Word(<<"o", "g">>, PyNone, NoError),
         Punctuation(<<".">>, NoError) >>,
      << Word(<<"h", "aacute", "l", "f">>, PyNone, NoError),
         Punctuation(<<COMPOSITE_HYPHEN>>, NoError),
         Word(<<"o", "p", "i", "n", "b", "e", "r">>, PyNone, NoError) >>,
      << Word(MONTHS[2], PyNone, NoError),
         Punctuation(<<COMPOSITE_HYPHEN>>, NoError),
         Word(<<"o", "g">>, PyNone, NoError),
         Word(<<"B", "e", "r", "l", "iacute", "n">>, PyNone, NoError) >>,
      << Word(<<"V", "e", "s", "t", "u", "r">>, PyNone, NoError),
         Punctuation(<<COMPOSITE_HYPHEN>>, NoError),
         dg[4],
         Word(MONTHS[2], PyNone, NoError) >>,
      << Word(<<"V", "e", "s", "t", "u", "r">>, PyNone, NoError),
         Punctuation(<<COMPOSITE_HYPHEN>>, NoError),
         Word(<<"B", "e", "r", "l", "iacute", "n">>, PyNone, NoError) >>,
      << Word(<<"V", "e", "s", "t", "u", "r">>, PyNone, NoError),
         Punctuation(<<COMPOSITE_HYPHEN>>, NoError),
         Word(<<"o", "p", "i", "n", "b", "e", "r">>, PyNone, NoError) >>,
      << dg[1],
         dg[6] >>,
      << dg[1],
         Year(ARID \o <<" ", "2", "0", "2", "1">>, PyStr(<<"2", "0", "2", "1">>), NoError) >>,
      << Word(<<"t", "i", "l">>, PyNone, NoError),
         Word(<<"d", "aelig", "m", "i", "s">>, PyNone, NoError) >>,
      << Word(<<"a", "f", "h", "v", "e", "r", "j", "u">>, PyNone, NoError),
         Word(MONTHS[2], PyNone, NoError) >>,
      << Word(<<"a", "l">>, PyNone, NoError),
         Word(<<"g", "oacute", "eth", "u", "r">>, PyNone, NoError) >>,
      << Word(MONTHS[2], PyNone, NoError),
         Word(MONTHS[2], PyNone, NoError) >>,
      << Word(<<"h", "u", "n", "d", "r", "u", "eth", "u", "m">>, PyNone, NoError),
         Word(<<"thorn", "uacute", "s", "u", "n", "d", "a">>, PyNone, NoError) >>,
      << dg[4],
         Word(<<"h", "u", "n", "d", "r", "u", "eth", "u", "m">>, PyNone, NoError),
         Word(<<"thorn", "uacute", "s", "u", "n", "d", "a">>, PyNone, NoError) >>,
      << dg[4],
         Word(<<"h", "u", "n", "d", "r", "a", "eth">>, PyNone, NoError),
         Word(<<"h", "u", "n", "d", "r", "u", "eth", "u", "m">>, PyNone, NoError) >> }

\* parse_sentences is run on the tokens, and parse_phrases_1 waits for them
p1_Init ==
    /\ \E dg \in { [i \in 1..Len(PhrDigitTexts) |-> parse_digits(PhrDigitTexts[i]).tok] } :
           ps_input \in SeqsUpTo(PhrAlphabet(dg), MaxPhrLen) \cup PhrSamples(dg)
    /\ ps_stream = ps_input
    /\ ps_out = <<>>
    /\ ps_pc = "start"
    /\ ps_token = NoToken
    /\ ps_in_sentence = FALSE
    /\ p1_Idle

(***************************************************************************)
(* recognize_entities(token_stream, enclosing_session)                     *)
(***************************************************************************)
\* TOK.Person(w, m, error)
Person(w, m, error) == Tok("PERSON", w, m, error)

\* TOK.Entity(w, definitions, cases, genders, error)
Entity(w, definitions, cases, genders, error) ==
    Tok("ENTITY", w, PyTuple(<<definitions, cases, genders>>), error)

\* the names of the rows of the entities table, in the order in which a
\* query returns them
EntityNames ==
    << <<"S", "o", "n", "y">>, <<"S", "o", "n", "y", " ", "M", "u", "s", "i", "c", " ", "G", "r", "o", "u", "p">>, <<"C", "l", "i", "n", "t", "o", "n", " ", "F", "o", "u", "n", "d", "a", "t", "i", "o", "n">>, <<"B", "e", "r", "l", "iacute", "n">> >>

\* fetch_entities(w), fuzzy: the names that are w or start with w and a space
fetch_entities(w) ==
    SelectSeq(EntityNames,
              LAMBDA name : name = w \/ (Len(name) > Len(w) /\ SubSeq(name, 1, Len(w) + 1) = w \o <<" ">>))

\* query_entities with 'if not e' for 'if e is None': an empty answer is
\* fetched again
query_entities_refetch_empty(ecache, queries, w) ==
    IF InTable(ecache, w) /\ TableValue(ecache, w) # <<>>
    THEN [e |-> TableValue(ecache, w), ecache |-> ecache, queries |-> queries]
    ELSE [e |-> fetch_entities(w),
          ecache |-> ecache \cup { [txt |-> w, val |-> fetch_entities(w)] },
          queries |-> Append(queries, w)]

\* query_entities(w): the rows, the cache and the queries sent to the table
query_entities(ecache, queries, w) ==
    IF InTable(ecache, w)
    THEN [e |-> TableValue(ecache, w), ecache |-> ecache, queries |-> queries]
    ELSE [e |-> fetch_entities(w),
          ecache |-> ecache \cup { [txt |-> w, val |-> fetch_entities(w)] },
          queries |-> Append(queries, w)]

\* d[key] = val for a dict held as a set of [txt, val]
DictSet(d, key, val) == { r \in d : r.txt # key } \cup { [txt |-> key, val |-> val] }

\* lookup_lastname(lastname): NoToken stands for None
lookup_lastname(lastnames, lastname) ==
    IF InTable(lastnames, lastname) THEN TableValue(lastnames, lastname)
    ELSE IF /\ Len(lastname) > 1
            /\ Last(lastname) = "s"
            /\ InTable(lastnames, SubSeq(lastname, 1, Len(lastname) - 1))
    THEN TableValue(lastnames, SubSeq(lastname, 1, Len(lastname) - 1))
    ELSE NoToken

\* what stands on the stream where 'assert token.txt[0].isupper()' of
\* token_or_entity fails
AssertionFailed == Tok("AssertionError", NoneTxt, PyNone, PyNone)

\* token_or_entity(token)
token_or_entity(lastnames, token) ==
    IF ~IsUpperChar(token.txt[1]) THEN AssertionFailed
    ELSE IF lookup_lastname(lastnames, token.txt) = NoToken THEN token
    ELSE IF lookup_lastname(lastnames, token.txt).kind # "PERSON"
    THEN Entity(token.txt, PyNone, PyNone, PyNone, token.error)
    ELSE Person(token.txt, lookup_lastname(lastnames, token.txt).val, token.error)

\* flush_match()
flush_match(lastnames, tq) ==
    IF Len(tq) = 1 /\ lookup_lastname(lastnames, tq[1].txt) # NoToken
    THEN token_or_entity(lastnames, tq[1])
    ELSE Entity(Join([i \in 1..Len(tq) |-> tq[i].txt]), PyNone, PyNone, PyNone,
                PyList([i \in 1..Len(tq) |-> tq[i].error]))

\* None in state
NoneInState(state) == \E i \in 1..Len(state) : state[i].wrd = NoneTxt

\* the flush without 'tq = []'
re_Flush_queue_kept(st) ==
    IF st.state = <<>> THEN st
    ELSE [st EXCEPT !.out = IF NoneInState(st.state)
                            THEN Append(@, flush_match(st.lastnames, st.tq))
                            ELSE @ \o st.tq]

\* 'if state: (yield flush_match() | yield tq); tq = []', lines 2856-2863,
\* 2816-2822 and 2931-2938
re_Flush(st) ==
    IF st.state = <<>> THEN st
    ELSE [st EXCEPT !.out = IF NoneInState(st.state)
                            THEN Append(@, flush_match(st.lastnames, st.tq))
                            ELSE @ \o st.tq,
                    !.tq = <<>>]

\* add_to_state(sl, entity) of recognize_entities, for every entry of slist
re_add_to_state(slist) ==
    [i \in 1..Len(slist) |->
        [wrd |-> IF slist[i] = <<>> THEN NoneTxt ELSE Head(slist[i]),
         sl |-> IF slist[i] = <<>> THEN <<>> ELSE Tail(slist[i])]]

\* the lastnames mapping without the keys of parts
RECURSIVE DictDel(_, _)
DictDel(d, parts) ==
    IF parts = <<>> THEN d
    ELSE DictDel({ r \in d : r.txt # Head(parts) }, Tail(parts))

\* lines 2836-2852: the token is one of the words the state expects
re_Expected(st, token) ==
    LET tq == Append(st.tq, token)
        fullname == Join([i \in 1..Len(tq) |-> tq[i].txt])
        parts == Split(fullname, " ")
        kept == DictDel(st.lastnames, SubSeq(parts, 2, Len(parts) - 1))
        slist == StateOf(st.state, token.txt)
    IN  [st EXCEPT !.tq = tq,
                   !.state = re_add_to_state([i \in 1..Len(slist) |-> slist[i].sl]),
                   !.lastnames =
                       IF Last(parts) # <<>> /\ IsUpperChar(Last(parts)[1])
                       THEN DictSet(kept, Last(parts),
                                    Entity(fullname, PyNone, PyNone, PyNone, token.error))
                       ELSE kept]

\* lines 2871-2885: the last name of an upper case phrase is registered,
\* unless it is a patronym or a matronym
re_Lastname(st, token) ==
    IF /\ IsUpperChar(token.txt[1])
       /\ Contains(token.txt, <<" ">>)
       /\ Last(Split(token.txt, " ")) # <<>>
       /\ IsUpperChar(Last(Split(token.txt, " "))[1])
       /\ ~\E i \in 1..Len(BIN_Db_lookup_word(Last(Split(token.txt, " ")), FALSE, FALSE).m.l) :
              Fl(BIN_Db_lookup_word(Last(Split(token.txt, " ")), FALSE, FALSE).m.l[i])
                  \in { <<"f", "ouml", "eth">>, <<"m", "oacute", "eth">> }
    THEN [st EXCEPT !.lastnames = DictSet(@, Last(Split(token.txt, " ")), token)]
    ELSE st

\* weak, line 2865 and lines 2892-2895
re_Weak(token) ==
    \/ Contains(token.txt, <<" ">>)
    \/ (Truthy(token.val) /\ ~Contains(Stofn(token.val.l[1]), <<"-">>))

\* cnt, line 2866 and lines 2888-2891
re_Cnt(token) ==
    IF Contains(token.txt, <<" ">>) THEN Len(Split(token.txt, " ")) ELSE 1

\* e.name.split()[cnt:] for every e of elist
re_Tails(elist, cnt) ==
    [i \in 1..Len(elist) |->
        SubSeq(Split(elist[i], " "), cnt + 1, Len(Split(elist[i], " ")))]

\* lines 2900-2925: the token is yielded or starts a queue; q is the result of
\* query_entities, or elist = [] without a query.  Where the token is yielded
\* the queue and the new state are left as they are: the code asserts that
\* they are empty.
re_Candidate(st, token, q) ==
    LET tails == re_Tails(q.e, re_Cnt(token))
        candidate == \E i \in 1..Len(tails) : tails[i] # <<>>
        weak == re_Weak(token)
        newstate == re_add_to_state(SelectSeq(tails, LAMBDA sl : sl # <<>> \/ ~weak))
    IN  IF q.e # <<>>
        THEN IF weak /\ ~candidate
             THEN [st EXCEPT !.out = Append(@, token_or_entity(st.lastnames, token)),
                             !.state = newstate,
                             !.ecache = q.ecache, !.queries = q.queries]
             ELSE [st EXCEPT !.tq = <<token>>,
                             !.state = newstate,
                             !.ecache = q.ecache, !.queries = q.queries]
        ELSE [st EXCEPT !.out = Append(@, IF IsUpperChar(token.txt[1])
                                          THEN token_or_entity(st.lastnames, token)
                                          ELSE token),
                        !.state = <<>>,
                        !.ecache = q.ecache, !.queries = q.queries]

\* lines 2853-2925: the token is not one of the words the state expects
re_Starting(st, token) ==
    IF /\ token.kind = "WORD"
       /\ IsUpperChar(token.txt[1])
       /\ token.txt \notin Abbreviations_DICT
    THEN re_Candidate(st, token, query_entities(st.ecache, st.queries, token.txt))
    ELSE re_Candidate(st, token, [e |-> <<>>, ecache |-> st.ecache, queries |-> st.queries])

\* one pass of 'while True', lines 2810-2928
re_Pass(st, token) ==
    IF token.txt = NoneTxt \/ token.txt = <<>>
    THEN [re_Flush(st) EXCEPT !.out = Append(@, token), !.state = <<>>]
    ELSE IF StateOf(st.state, token.txt) # <<>>
    THEN re_Expected(st, token)
    ELSE re_Starting(re_Lastname(re_Flush(st), token), token)

VARIABLES
    re_input,      \* the tokens handed to recognize_entities (history)
    re_stream,     \* what next(token_stream) has not returned yet
    re_tq,         \* local: tq, the token queue
    re_state,      \* local: state, the names being considered
    re_ecache,     \* local: ecache
    re_lastnames,  \* local: lastnames
    re_queries,    \* the initial words the entities table was queried for (history)
    re_out,        \* tokens yielded so far
    re_pc          \* "idle", "loop", "done"

re_vars == <<re_input, re_stream, re_tq, re_state, re_ecache, re_lastnames, re_queries,
             re_out, re_pc>>

re_Idle ==
    /\ re_input = <<>>
    /\ re_stream = <<>>
    /\ re_tq = <<>>
    /\ re_state = <<>>
    /\ re_ecache = {}
    /\ re_lastnames = {}
    /\ re_queries = <<>>
    /\ re_out = <<>>
    /\ re_pc = "idle"

\* the PersonName list of the person token
HillaryClinton ==
    Person(<<"H", "i", "l", "l", "a", "r", "y", " ", "C", "l", "i", "n", "t", "o", "n">>,
           PyList(<< PyTuple(<<PyStr(<<"H", "i", "l", "l", "a", "r", "y", " ", "C", "l", "i", "n", "t", "o", "n">>), PyStr(<<"k", "v", "k">>), PyStr(<<"n", "f">>)>>) >>),
           NoError)

\* the tokens the input of recognize_entities is drawn from: words that the
\* lexicon does not know have the meanings []
EntAlphabet ==
    { Word(<<"S", "o", "n", "y">>, PyList(<<>>), NoError),
      Word(<<"M", "u", "s", "i", "c">>, PyList(<<>>), NoError),
      Word(<<"G", "r", "o", "u", "p">>, PyList(<<>>), NoError),
      HillaryClinton,
      Word(<<"C", "l", "i", "n", "t", "o", "n">>, PyList(<<>>), NoError),
      Punctuation(<<".">>, NoError),
      Begin_Sentence }

\* token sequences that reach the branches the alphabet cannot
EntSamples ==
    { << HillaryClinton, Word(<<"C", "l", "i", "n", "t", "o", "n", "s">>, PyList(<<>>), NoError) >>,
      << Person(<<"J", "oacute", "n", " ", "J", "oacute", "n", "s", "s", "o", "n">>,
                PyList(<< PyTuple(<<PyStr(<<"J", "oacute", "n", " ", "J", "oacute", "n", "s", "s", "o", "n">>), PyStr(<<"k", "k">>), PyStr(<<"n", "f">>)>>) >>),
                NoError),
         Word(<<"J", "oacute", "n", "s", "s", "o", "n">>, BIN_Db_meanings(<<"J", "oacute", "n", "s", "s", "o", "n">>), NoError) >>,
      << Word(<<"B", "e", "r", "l", "iacute", "n">>, BIN_Db_meanings(<<"B", "e", "r", "l", "iacute", "n">>), NoError),
         Word(<<"o", "g">>, BIN_Db_meanings(<<"o", "g">>), NoError) >>,
      << Word(<<"D", "R">>, PyList(<<>>), NoError) >>,
      << Word(<<"S", "o", "n", "y">>, PyList(<<>>), NoError),
         Word(<<"M", "u", "s", "i", "c">>, PyList(<<>>), NoError),
         Word(<<"S", "o", "n", "y">>, PyList(<<>>), NoError),
         Word(<<"M", "u", "s", "i", "c">>, PyList(<<>>), NoError),
         Word(<<"G", "r", "o", "u", "p">>, PyList(<<>>), NoError) >> }

\* the state inside the with block, lines 2741-2747: the queue, the state,
\* the cache and the last names are empty
re_Init ==
    /\ re_input \in SeqsUpTo(EntAlphabet, MaxEntLen) \cup EntSamples
    /\ re_stream = re_input
    /\ re_tq = <<>>
    /\ re_state = <<>>
    /\ re_ecache = {}
    /\ re_lastnames = {}
    /\ re_queries = <<>>
    /\ re_out = <<>>
    /\ re_pc = "loop"

\* token = next(token_stream) and one pass of the loop
re_Loop ==
    /\ re_pc = "loop"
    /\ re_stream # <<>>
    /\ re_stream' = Tail(re_stream)
    /\ \E st \in { re_Pass([tq |-> re_tq, state |-> re_state, ecache |-> re_ecache,
                            lastnames |-> re_lastnames, queries |-> re_queries,
                            out |-> re_out], Head(re_stream)) } :
           /\ re_tq' = st.tq
           /\ re_state' = st.state
           /\ re_ecache' = st.ecache
           /\ re_lastnames' = st.lastnames
           /\ re_queries' = st.queries
           /\ re_out' = st.out
    /\ UNCHANGED <<re_input, re_pc>>

\* lines 2927-2938: the stream is exhausted, an accumulated match is yielded
re_Final ==
    /\ re_pc = "loop"
    /\ re_stream = <<>>
    /\ \E st \in { re_Flush([tq |-> re_tq, state |-> re_state, ecache |-> re_ecache,
                             lastnames |-> re_lastnames, queries |-> re_queries,
                             out |-> re_out]) } :
           /\ re_tq' = st.tq
           /\ re_out' = st.out
    /\ re_pc' = "done"
    /\ UNCHANGED <<re_input, re_stream, re_state, re_ecache, re_lastnames, re_queries>>

(***************************************************************************)
(* class SessionContext of scraperdb.py                                    *)
(***************************************************************************)
\* the parameters of SessionContext.__init__(self, session = None, commit = False)
SessionContext_params == { "session", "commit" }

\* the calls of the constructor: the one of recognize_entities (tokenizer.py,
\* line 2747: session = enclosing_session, commit = True, read_only = True),
\* and calls that pass session and commit only
SessionContext_calls ==
    { [caller |-> "recognize_entities", kw |-> {"session", "commit", "read_only"},
       supplied |-> b, commit |-> TRUE] : b \in BOOLEAN }
    \cup { [caller |-> "other", kw |-> {"session", "commit"},
            supplied |-> b, commit |-> c] : b \in BOOLEAN, c \in BOOLEAN }

VARIABLES
    sc_call,         \* the call of the constructor
    sc_new_session,  \* self._new_session
    sc_commit,       \* self._commit
    sc_log,          \* the calls made on the session: [by, op]
    sc_body_log,     \* the log as the body of the with statement left it
    sc_body_exc,     \* the exception the body raised ("" when none)
    sc_exc,          \* the exception the caller of the with statement sees
    sc_pc            \* "idle", "call", "enter", "body", "exit", "left", "failed"

sc_vars == <<sc_call, sc_new_session, sc_commit, sc_log, sc_body_log, sc_body_exc, sc_exc,
             sc_pc>>

sc_Idle ==
    /\ sc_call = [caller |-> "none", kw |-> {}, supplied |-> FALSE, commit |-> FALSE]
    /\ sc_new_session = FALSE
    /\ sc_commit = FALSE
    /\ sc_log = <<>>
    /\ sc_body_log = <<>>
    /\ sc_body_exc = ""
    /\ sc_exc = ""
    /\ sc_pc = "idle"

\* a with statement is about to construct its SessionContext
sc_Init ==
    /\ sc_call \in SessionContext_calls
    /\ sc_new_session = FALSE
    /\ sc_commit = FALSE
    /\ sc_log = <<>>
    /\ sc_body_log = <<>>
    /\ sc_body_exc = ""
    /\ sc_exc = ""
    /\ sc_pc = "call"

\* SessionContext.__init__, lines 94-106; a keyword that is not a parameter
\* is a TypeError
SessionContext_init ==
    /\ sc_pc = "call"
    /\ IF ~(sc_call.kw \subseteq SessionContext_params)
       THEN /\ sc_pc' = "failed"
            /\ sc_exc' = "TypeError"
            /\ UNCHANGED <<sc_new_session, sc_commit>>
       ELSE /\ sc_pc' = "enter"
            /\ sc_new_session' = ~sc_call.supplied
            /\ sc_commit' = IF sc_call.supplied THEN FALSE ELSE sc_call.commit
            /\ UNCHANGED sc_exc
    /\ UNCHANGED <<sc_call, sc_log, sc_body_log, sc_body_exc>>

\* SessionContext.__enter__, lines 108-111
SessionContext_enter ==
    /\ sc_pc = "enter"
    /\ sc_pc' = "body"
    /\ UNCHANGED <<sc_call, sc_new_session, sc_commit, sc_log, sc_body_log, sc_body_exc,
                   sc_exc>>

\* the body of the with statement uses the session
sc_BodyOp ==
    /\ sc_pc = "body"
    /\ Len(sc_log) < MaxBodyOps
    /\ \E op \in {"query", "add", "commit"} :
           sc_log' = Append(sc_log, [by |-> "body", op |-> op])
    /\ UNCHANGED <<sc_call, sc_new_session, sc_commit, sc_body_log, sc_body_exc, sc_exc,
                   sc_pc>>

\* the body ends, normally or with an exception
sc_BodyEnd ==
    /\ sc_pc = "body"
    /\ sc_body_exc' \in {"", "Exception"}
    /\ sc_body_log' = sc_log
    /\ sc_pc' = "exit"
    /\ UNCHANGED <<sc_call, sc_new_session, sc_commit, sc_log, sc_exc>>

\* __exit__ without the test of self._new_session
SessionContext_exit_calls_any_session(new_session, commit, exc_type, failed) ==
    (IF commit THEN (IF exc_type = "" THEN <<"commit">> ELSE <<"rollback">>) ELSE <<>>)
    \o (IF commit /\ failed THEN <<>> ELSE <<"close">>)

\* the calls SessionContext.__exit__ makes on the session, lines 114-125;
\* failed tells that commit() or rollback() raised
SessionContext_exit_calls(new_session, commit, exc_type, failed) ==
    IF ~new_session THEN <<>>
    ELSE (IF commit THEN (IF exc_type = "" THEN <<"commit">> ELSE <<"rollback">>) ELSE <<>>)
         \o (IF commit /\ failed THEN <<>> ELSE <<"close">>)

\* SessionContext.__exit__: commit() and rollback() of the session return or
\* raise; __exit__ returns False, so the exception of the body is raised again
SessionContext_exit ==
    /\ sc_pc = "exit"
    /\ \E failed \in BOOLEAN :
           /\ failed => sc_new_session /\ sc_commit
           /\ sc_log' = sc_log \o
                  [i \in 1..Len(SessionContext_exit_calls(sc_new_session, sc_commit,
                                                          sc_body_exc, failed)) |->
                      [by |-> "context",
                       op |-> SessionContext_exit_calls(sc_new_session, sc_commit,
                                                        sc_body_exc, failed)[i]]]
           /\ sc_exc' = IF failed THEN "SQLAlchemyError" ELSE sc_body_exc
    /\ sc_pc' = "left"
    /\ UNCHANGED <<sc_call, sc_new_session, sc_commit, sc_body_log, sc_body_exc>>

(***************************************************************************)
(* test, test_2 and the ends of raw_tokenize and tokenize                  *)
(***************************************************************************)
\* test_2(token_stream), lines 3158-3174: every token is yielded in the loop;
\* after StopIteration token still holds the last one, which is yielded again
test_2(token_stream) ==
    IF token_stream = <<>> THEN <<>> ELSE Append(token_stream, Last(token_stream))

VARIABLES
    tr_input,   \* the tokens of parse_sentences, and those of disambiguate_phrases
    tr_raw,     \* what raw_tokenize yields for the tokens of parse_sentences
    tr_tok,     \* what tokenize yields for the tokens of disambiguate_phrases
    tr_pc       \* which of the two have run: a set of "raw", "tok"; {"idle"}

tr_vars == <<tr_input, tr_raw, tr_tok, tr_pc>>

tr_Idle ==
    /\ tr_input = <<>>
    /\ tr_raw = <<>>
    /\ tr_tok = <<>>
    /\ tr_pc = {"idle"}

\* the tokens the streams are drawn from
RelayAlphabet ==
    { Begin_Sentence,
      End_Sentence,
      Word(<<"a", "l">>, PyNone, NoError),
      Word(<<"g", "oacute", "eth", "u", "r">>, PyNone, NoError),
      Punctuation(<<".">>, NoError) }

tr_Init ==
    /\ tr_input \in SeqsUpTo(RelayAlphabet, MaxRelayLen)
    /\ tr_raw = <<>>
    /\ tr_tok = <<>>
    /\ tr_pc = {}

\* the last two stages of raw_tokenize, lines 2954-2955
tr_RawTokenize ==
    /\ "idle" \notin tr_pc
    /\ "raw" \notin tr_pc
    /\ tr_raw' = test(parse_errors_1(tr_input))
    /\ tr_pc' = tr_pc \cup {"raw"}
    /\ UNCHANGED <<tr_input, tr_tok>>

\* the last stage of tokenize, line 2985
tr_Tokenize ==
    /\ "idle" \notin tr_pc
    /\ "tok" \notin tr_pc
    /\ tr_tok' = test_2(tr_input)
    /\ tr_pc' = tr_pc \cup {"tok"}
    /\ UNCHANGED <<tr_input, tr_raw>>

(***************************************************************************)
(* tokenize(text): the stages from the text to the amounts                 *)
(***************************************************************************)
\* w.isupper(): a cased character, and no lower-case one
isupper(w) ==
    /\ \E i \in 1..Len(w) : IsUpperChar(w[i])
    /\ ~\E i \in 1..Len(w) : IsLowerChar(w[i])

\* lines 2210-2250 of parse_phrases_2, [number] [currency]: the currency cur
\* found for next_token (None when there is none) and the AMOUNT token made
\* of token and next_token
p2_Amount(token, next_token) ==
    LET word == next_token.kind = "WORD"
        stem == match_stem_list(next_token, CURRENCIES, NoFilter)
        iso == word /\ stem = PyNone /\ isupper(next_token.txt)
        cur == IF ~word THEN next_token.val.l[1]
               ELSE IF ~iso THEN stem
               ELSE IF InTable(CURRENCIES, next_token.txt)
               THEN TableValue(CURRENCIES, next_token.txt)
               ELSE PyNone
        c0 == token.val.l[2]
        g0 == token.val.l[3]
        c1 == IF iso /\ ~Truthy(c0)
              THEN PyList([i \in 1..Len(ALL_CASES) |-> PyStr(ALL_CASES[i])])
              ELSE c0
        g1 == IF iso /\ ~Truthy(g0) THEN PyList(<<PyStr(<<"h", "k">>)>>) ELSE g0
        cases == IF word
                 THEN IF cur # PyNone /\ ~Truthy(c1) THEN all_cases(next_token) ELSE c1
                 ELSE IF Truthy(next_token.val.l[2]) THEN next_token.val.l[2] ELSE c0
        genders == IF word
                   THEN IF cur # PyNone /\ ~Truthy(g1) THEN all_genders(next_token) ELSE g1
                   ELSE IF Truthy(next_token.val.l[3]) THEN next_token.val.l[3] ELSE g0
    IN  [cur |-> cur,
         tok |-> Amount(token.txt \o <<" ">> \o next_token.txt, cur.s, token.val.l[1],
                        cases, genders,
                        compound_error(<<token.error, next_token.error>>))]

\* what the loop of parse_phrases_2 (lines 2206-2510) does to the numbers of
\* its stream: the one-token lookahead, the amounts, the yield and the final
\* token; amt is p2_Amount of the two tokens at the head
RECURSIVE parse_phrases_2_amounts(_, _, _)
p2_AmountStep(token, stream, out, amt) ==
    IF amt.cur = PyNone
    THEN parse_phrases_2_amounts(Head(stream), Tail(stream), Append(out, token))
    ELSE IF compound_error_raises(<<token.error, Head(stream).error>>)
    THEN [out |-> out, raised |-> "TypeError"]
    ELSE IF Tail(stream) = <<>> THEN [out |-> Append(out, amt.tok), raised |-> ""]
    ELSE parse_phrases_2_amounts(Head(Tail(stream)), Tail(Tail(stream)),
                                 Append(out, amt.tok))

parse_phrases_2_amounts(token, stream, out) ==
    IF stream = <<>> THEN [out |-> Append(out, token), raised |-> ""]
    ELSE IF token.kind = "NUMBER" /\ Head(stream).kind \in {"WORD", "CURRENCY"}
    THEN p2_AmountStep(token, stream, out, p2_Amount(token, Head(stream)))
    ELSE parse_phrases_2_amounts(Head(stream), Tail(stream), Append(out, token))

VARIABLES
    am_p2,     \* the tokens parse_phrases_2 yields
    am_out,    \* the tokens tokenize() yields
    am_exc,    \* the exception tokenize() raises ("" when none)
    am_pc      \* "idle", "run", "entities", "done"

am_vars == <<am_p2, am_out, am_exc, am_pc>>

am_Idle ==
    /\ am_p2 = <<>>
    /\ am_out = <<>>
    /\ am_exc = ""
    /\ am_pc = "idle"

\* scenario 3
Scenario3 == <<"K", "o", "s", "t", "n", "a", "eth", "u", "r", " ", "v", "a", "r", " ", "1", ".", "2", "3", "4", ",", "5", "6", " ", "k", "r", ".">>

\* the texts given to tokenize()
AmountTexts ==
    { Scenario3,
      <<"1", ".", "2", "3", "4", ",", "5", "6", " ", "k", "r", ".", " ", "v", "a", "r">>,
      <<"5", " ", "k", "r">>,
      <<"5", " ", "I", "S", "K">>,
      <<"v", "a", "r", " ", "5", " ", "p", "u", "n", "d">>,
      <<"5", " ", "v", "a", "r">>,
      <<"$", "5">>,
      <<"5", " ", "k", "r", ".", " ", "V", "a", "r">> }

am_Init ==
    /\ pt_txt \in AmountTexts
    /\ pt_rough = Lexemes(pt_txt)
    /\ pt_w = <<>>
    /\ pt_QM = FALSE
    /\ pt_out = <<>>
    /\ pt_pc = "for"
    /\ pt_exc = ""
    /\ am_p2 = <<>>
    /\ am_out = <<>>
    /\ am_exc = ""
    /\ am_pc = "run"

\* parse_particles reads what parse_tokens has yielded (line 2952)
am_Particles ==
    /\ am_pc = "run"
    /\ pt_pc = "done"
    /\ pp_pc = "idle"
    /\ pp_input' = [i \in 1..Len(pt_out) |-> From(pt_out[i], <<i>>)]
    /\ pp_stream' = pp_input'
    /\ pp_pc' = "start"
    /\ UNCHANGED <<pp_out, pp_token, pp_exc>>

\* parse_sentences reads what parse_particles has yielded (line 2953)
am_Sentences ==
    /\ am_pc = "run"
    /\ pp_pc = "done"
    /\ ps_pc = "idle"
    /\ ps_input' = [i \in 1..Len(pp_out) |-> From(pp_out[i], <<>>)]
    /\ ps_stream' = ps_input'
    /\ ps_pc' = "start"
    /\ UNCHANGED <<ps_out, ps_token, ps_in_sentence>>

\* parse_phrases_2 reads what parse_phrases_1 has yielded (line 2978)
am_Phrases2 ==
    /\ am_pc = "run"
    /\ p1_pc = "done"
    /\ \E r \in { IF p1_out = <<>> THEN [out |-> <<>>, raised |-> ""]
                  ELSE parse_phrases_2_amounts(Head(p1_out), Tail(p1_out), <<>>) } :
           /\ am_p2' = r.out
           /\ am_exc' = r.raised
           /\ am_pc' = IF r.raised = "" THEN "entities" ELSE "done"
    /\ UNCHANGED am_out

\* recognize_entities and the stages after it (lines 2981-2986).  The with
\* statement of line 2747 constructs its SessionContext before the stage
\* reads a token; when the constructor raises, tokenize() yields nothing.
\* Otherwise an AMOUNT token is relayed as it is, and test_2 is the last
\* stage.
am_Entities ==
    /\ am_pc = "entities"
    /\ \E call \in { c \in SessionContext_calls : c.caller = "recognize_entities" } :
           IF ~(call.kw \subseteq SessionContext_params)
           THEN am_out' = <<>> /\ am_exc' = "TypeError"
           ELSE am_out' = test_2(am_p2) /\ am_exc' = ""
    /\ am_pc' = "done"
    /\ UNCHANGED am_p2

(***************************************************************************)
(* The generators of the stages that hold a lexicon handle                 *)
(***************************************************************************)
\* annotate (line 1687), parse_phrases_1 (line 1968) and recognize_entities
\* (lines 2746-2747) run their loops inside 'with BIN_Db.get_db() as db';
\* stage s reads the generator of stage s - 1, and stage 0 stands for the
\* generators below annotate, which hold no resource
ReleaseStages == << "annotate", "parse_phrases_1", "recognize_entities" >>

VARIABLES
    rl_top,       \* the stage whose generator the consumer iterates
    rl_st,        \* per stage: "new", "running", "yielded", "final", "done"
    rl_pc,        \* [what, at]: "idle", or next() called on at, or the item,
                  \* the StopIteration or the exception that at hands upward
    rl_left,      \* the tokens stage 0 has not yielded yet
    rl_log,       \* the handles acquired and released: [op, stage, res]
    rl_consumer   \* "idle" (not used), "iterating", "exhausted", "failed", "abandoned"

rl_vars == <<rl_top, rl_st, rl_pc, rl_left, rl_log, rl_consumer>>

rl_Idle ==
    /\ rl_top = 0
    /\ rl_st = [s \in 1..Len(ReleaseStages) |-> "new"]
    /\ rl_pc = [what |-> "idle", at |-> 0]
    /\ rl_left = 0
    /\ rl_log = <<>>
    /\ rl_consumer = "idle"

\* the consumer holds the generator of a stage and has not called next() yet
rl_Init ==
    /\ rl_top \in 1..Len(ReleaseStages)
    /\ rl_st = [s \in 1..Len(ReleaseStages) |-> "new"]
    /\ rl_pc = [what |-> "idle", at |-> 0]
    /\ rl_left \in 0..MaxReleaseItems
    /\ rl_log = <<>>
    /\ rl_consumer = "iterating"

Acquire(s, res) == [op |-> "acquire", stage |-> s, res |-> res]

Release(s, res) == [op |-> "release", stage |-> s, res |-> res]

\* the handles a log leaves held
Held(log) ==
    { [stage |-> log[i].stage, res |-> log[i].res] : i \in { k \in DOMAIN log :
          /\ log[k].op = "acquire"
          /\ ~\E r \in DOMAIN log : r > k /\ log[r] = Release(log[k].stage, log[k].res) } }

\* leaving the with statement of stage s: the context managers exit in the
\* reverse of the order in which they were entered
rl_Exits(s, log) ==
    (IF [stage |-> s, res |-> "session"] \in Held(log) THEN <<Release(s, "session")>> ELSE <<>>)
    \o (IF [stage |-> s, res |-> "lexicon"] \in Held(log) THEN <<Release(s, "lexicon")>> ELSE <<>>)

\* stage s hands what (an item, StopIteration or an exception) to the code
\* that called next() on it: the stage above, or the consumer
rl_Deliver(what, s) ==
    IF s = rl_top
    THEN /\ rl_pc' = [what |-> "idle", at |-> 0]
         /\ rl_consumer' = IF what = "stop" THEN "exhausted"
                           ELSE IF what = "raise" THEN "failed"
                           ELSE rl_consumer
    ELSE /\ rl_pc' = [what |-> what, at |-> s]
         /\ UNCHANGED rl_consumer

\* the consumer calls next()
rl_Next ==
    /\ rl_pc.what = "idle"
    /\ rl_consumer = "iterating"
    /\ rl_pc' = [what |-> "next", at |-> rl_top]
    /\ UNCHANGED <<rl_top, rl_st, rl_left, rl_log, rl_consumer>>

\* the consumer drops the iterator without exhausting it
rl_Abandon ==
    /\ rl_pc.what = "idle"
    /\ rl_consumer = "iterating"
    /\ rl_consumer' = "abandoned"
    /\ UNCHANGED <<rl_top, rl_st, rl_pc, rl_left, rl_log>>

\* the first next() on stage s runs its with statement: BIN_Db.get_db() may
\* fail; recognize_entities then constructs its SessionContext, and a
\* TypeError of the constructor leaves the with statement through the exit of
\* db; inside the with statement the stage calls next() on its upstream
rl_Enter(s) ==
    /\ rl_pc = [what |-> "next", at |-> s]
    /\ rl_st[s] = "new"
    /\ \E opens \in BOOLEAN :
       \E call \in { c \in SessionContext_calls : c.caller = "recognize_entities" } :
           IF ~opens
           THEN /\ rl_st' = [rl_st EXCEPT ![s] = "done"]
                /\ rl_Deliver("raise", s)
                /\ UNCHANGED rl_log
           ELSE IF ReleaseStages[s] = "recognize_entities"
                   /\ ~(call.kw \subseteq SessionContext_params)
           THEN /\ rl_log' = rl_log \o <<Acquire(s, "lexicon"), Release(s, "lexicon")>>
                /\ rl_st' = [rl_st EXCEPT ![s] = "done"]
                /\ rl_Deliver("raise", s)
           ELSE /\ rl_log' = rl_log \o <<Acquire(s, "lexicon")>>
                               \o (IF ReleaseStages[s] = "recognize_entities"
                                   THEN <<Acquire(s, "session")>> ELSE <<>>)
                /\ rl_st' = [rl_st EXCEPT ![s] = "running"]
                /\ rl_pc' = [what |-> "next", at |-> s - 1]
                /\ UNCHANGED rl_consumer
    /\ UNCHANGED <<rl_top, rl_left>>

\* next() on a stage suspended at a yield: in the loop it calls next() on its
\* upstream; after the final yield (lines 2186-2188, 2930-2938) it leaves the
\* with statement and ends
rl_Resume(s) ==
    /\ rl_pc = [what |-> "next", at |-> s]
    /\ rl_st[s] \in {"yielded", "final"}
    /\ IF rl_st[s] = "yielded"
       THEN /\ rl_st' = [rl_st EXCEPT ![s] = "running"]
            /\ rl_pc' = [what |-> "next", at |-> s - 1]
            /\ UNCHANGED <<rl_log, rl_consumer>>
       ELSE /\ rl_st' = [rl_st EXCEPT ![s] = "done"]
            /\ rl_log' = rl_log \o rl_Exits(s, rl_log)
            /\ rl_Deliver("stop", s)
    /\ UNCHANGED <<rl_top, rl_left>>

\* next() on the generators below annotate: a token, the end of the stream,
\* or an exception
rl_Source ==
    /\ rl_pc = [what |-> "next", at |-> 0]
    /\ IF rl_left = 0
       THEN rl_pc' = [what |-> "stop", at |-> 0] /\ UNCHANGED rl_left
       ELSE \/ rl_pc' = [what |-> "item", at |-> 0] /\ rl_left' = rl_left - 1
            \/ rl_pc' = [what |-> "raise", at |-> 0] /\ UNCHANGED rl_left
    /\ UNCHANGED <<rl_top, rl_st, rl_log, rl_consumer>>

\* stage s has read a token: it yields one, or (with its lookahead) reads
\* another, or raises; an exception leaves the with statement
rl_Item(s) ==
    /\ rl_pc = [what |-> "item", at |-> s - 1]
    /\ \/ /\ rl_st' = [rl_st EXCEPT ![s] = "yielded"]
          /\ rl_Deliver("item", s)
          /\ UNCHANGED rl_log
       \/ /\ ReleaseStages[s] # "annotate"
          /\ rl_pc' = [what |-> "next", at |-> s - 1]
          /\ UNCHANGED <<rl_st, rl_log, rl_consumer>>
       \/ /\ rl_st' = [rl_st EXCEPT ![s] = "done"]
          /\ rl_log' = rl_log \o rl_Exits(s, rl_log)
          /\ rl_Deliver("raise", s)
    /\ UNCHANGED <<rl_top, rl_left>>

\* the upstream of stage s is exhausted: annotate leaves its for loop and its
\* with statement; the other two catch StopIteration and yield what they
\* still hold, if anything, inside the with statement
rl_Stop(s) ==
    /\ rl_pc = [what |-> "stop", at |-> s - 1]
    /\ \/ /\ ReleaseStages[s] # "annotate"
          /\ rl_st' = [rl_st EXCEPT ![s] = "final"]
          /\ rl_Deliver("item", s)
          /\ UNCHANGED rl_log
       \/ /\ rl_st' = [rl_st EXCEPT ![s] = "done"]
          /\ rl_log' = rl_log \o rl_Exits(s, rl_log)
          /\ rl_Deliver("stop", s)
    /\ UNCHANGED <<rl_top, rl_left>>

\* an exception of the upstream passes through the with statement of stage s
rl_Raise(s) ==
    /\ rl_pc = [what |-> "raise", at |-> s - 1]
    /\ rl_st' = [rl_st EXCEPT ![s] = "done"]
    /\ rl_log' = rl_log \o rl_Exits(s, rl_log)
    /\ rl_Deliver("raise", s)
    /\ UNCHANGED <<rl_top, rl_left>>

\* nothing in the code closes a generator.  The runtime finalises a
\* generator that is no longer referenced, at a time of its choosing:
\* GeneratorExit is raised at the yield where the generator is suspended and
\* leaves its with statement.  The generator the consumer held is
\* unreferenced once the consumer has dropped it, the generator of stage s
\* once the generator that read it has ended.
rl_Finalize(s) ==
    /\ s <= rl_top
    /\ rl_st[s] \in {"new", "yielded", "final"}
    /\ IF s = rl_top THEN rl_consumer = "abandoned" ELSE rl_st[s + 1] = "done"
    /\ rl_st' = [rl_st EXCEPT ![s] = "done"]
    /\ rl_log' = rl_log \o rl_Exits(s, rl_log)
    /\ UNCHANGED <<rl_top, rl_pc, rl_left, rl_consumer>>

(***************************************************************************)
(* compatible(pn, npn) of parse_phrases_2                                  *)
(***************************************************************************)
\* PersonName = namedtuple('PersonName', ['name', 'gender', 'case'])
PersonName(name, gender, c) == [name |-> name, gender |-> gender, case |-> c]

\* lines 2368-2374
compatible(pn, npn) ==
    IF Truthy(npn.gender) /\ npn.gender # pn.gender THEN FALSE
    ELSE IF Truthy(npn.case) /\ npn.case # pn.case THEN FALSE
    ELSE TRUE

\* the genders and cases of a PersonName: None for a middle-name abbreviation
NameGenders == { PyNone, PyStr(<<"k", "k">>), PyStr(<<"k", "v", "k">>) }

NameCases == { PyNone } \cup { PyStr(ALL_CASES[i]) : i \in 1..Len(ALL_CASES) }

PersonNames ==
    { PersonName(PyStr(<<"A">>), g, c) : g \in NameGenders, c \in NameCases }

VARIABLES
    cp_pn,      \* the candidate we have
    cp_npn,     \* the next candidate
    cp_result,  \* what compatible(pn, npn) returned
    cp_pc       \* "idle", "call", "done"

cp_vars == <<cp_pn, cp_npn, cp_result, cp_pc>>

cp_Idle ==
    /\ cp_pn = PersonName(PyNone, PyNone, PyNone)
    /\ cp_npn = PersonName(PyNone, PyNone, PyNone)
    /\ cp_result = FALSE
    /\ cp_pc = "idle"

cp_Init ==
    /\ cp_pn \in PersonNames
    /\ cp_npn \in PersonNames
    /\ cp_result = FALSE
    /\ cp_pc = "call"

cp_Call ==
    /\ cp_pc = "call"
    /\ cp_result' = compatible(cp_pn, cp_npn)
    /\ cp_pc' = "done"
    /\ UNCHANGED <<cp_pn, cp_npn>>

(***************************************************************************)
(* parse_phrases_2(token_stream): the person names                         *)
(***************************************************************************)
\* NOT_NAME_AT_SENTENCE_START, line 82
NOT_NAME_AT_SENTENCE_START == { <<"A", "n", "n", "a", "r">> }

\* DisallowedNames.STEMS and NamePreferences.SET are read from the settings
\* file: no disallowed name form, and one preferred name
DisallowedNames_STEMS == {}

NamePreferences_SET == { <<"B", "j", "ouml", "r", "n">> }

\* case(bin_spec) with its default "nf", lines 1894-1905
case_nf(bin_spec) == IF case(bin_spec) = <<>> THEN <<"n", "f">> ELSE case(bin_spec)

\* the loop of stems (lines 2289-2297) over the meanings ms
RECURSIVE stems_loop(_, _, _)
stems_loop(ms, categories, dstems) ==
    IF ms = <<>> THEN <<>>
    ELSE (IF /\ Fl(Head(ms)) \in categories
             /\ Contains(Beyging(Head(ms)), <<"E", "T">>)
             /\ [stofn |-> Stofn(Head(ms)), case |-> case_nf(Beyging(Head(ms)))] \notin dstems
          THEN <<PersonName(PyStr(Stofn(Head(ms))), PyStr(Ordfl(Head(ms))),
                            PyStr(case_nf(Beyging(Head(ms)))))>>
          ELSE <<>>)
         \o stems_loop(Tail(ms), categories, dstems)

\* stems(tok, categories, given_name), lines 2275-2298; the empty list stands
\* for None
stems(tok, categories, given_name, at_sentence_start) ==
    IF tok.kind # "WORD" \/ ~Truthy(tok.val) THEN <<>>
    ELSE IF at_sentence_start /\ tok.txt \in NOT_NAME_AT_SENTENCE_START THEN <<>>
    ELSE stems_loop(tok.val.l, categories, IF given_name THEN DisallowedNames_STEMS ELSE {})

\* has_category(tok, categories), lines 2300-2304
has_category(tok, categories) ==
    IF tok.kind # "WORD" \/ ~Truthy(tok.val) THEN FALSE
    ELSE \E i \in 1..Len(tok.val.l) : Fl(tok.val.l[i]) \in categories

\* has_other_meaning(tok, category), lines 2306-2311
has_other_meaning(tok, category) ==
    IF tok.kind # "WORD" \/ ~Truthy(tok.val) THEN TRUE
    ELSE \E i \in 1..Len(tok.val.l) : Fl(tok.val.l[i]) # category

\* given_names(tok), lines 2314-2319
given_names(tok, at_sentence_start) ==
    IF tok.kind # "WORD" \/ ~IsUpperChar(tok.txt[1]) THEN <<>>
    ELSE stems(tok, { <<"i", "s", "m">> }, TRUE, at_sentence_start)

\* surnames(tok), lines 2322-2327
surnames(tok, at_sentence_start) ==
    IF tok.kind # "WORD" \/ ~IsUpperChar(tok.txt[1]) THEN <<>>
    ELSE stems(tok, { <<"f", "ouml", "eth">>, <<"m", "oacute", "eth">> }, FALSE,
               at_sentence_start)

\* unknown_surname(tok), lines 2330-2343
unknown_surname(tok) ==
    IF tok.kind # "WORD" THEN FALSE
    ELSE IF ~IsUpperChar(tok.txt[1]) THEN FALSE
    ELSE IF has_category(tok, { <<"f", "ouml", "eth">>, <<"m", "oacute", "eth">> }) THEN FALSE
    ELSE Len(tok.txt) = 1 \/ ~isupper(tok.txt)

\* the word of a middle name: an abbreviation without its brackets and period
MiddleWord(wrd) ==
    IF StartsWith(wrd, <<"[">>)
    THEN IF Len(wrd) >= 2 /\ SubSeq(wrd, Len(wrd) - 1, Len(wrd)) = <<".", "]">>
         THEN Slice(wrd, 1, Len(wrd) - 2)
         ELSE Slice(wrd, 1, Len(wrd) - 1)
    ELSE wrd

\* given_names_or_middle_abbrev(tok), lines 2345-2366
given_names_or_middle_abbrev(tok, at_sentence_start) ==
    IF given_names(tok, at_sentence_start) # <<>> THEN given_names(tok, at_sentence_start)
    ELSE IF tok.kind # "WORD" THEN <<>>
    ELSE IF /\ (Len(MiddleWord(tok.txt)) > 2 \/ ~IsUpperChar(MiddleWord(tok.txt)[1]))
            /\ MiddleWord(tok.txt) \notin { <<"v", "a", "n">>, <<"d", "e">>, <<"d", "e", "n">>,
                                            <<"d", "e", "r">>, <<"e", "l">>, <<"a", "l">> }
    THEN <<>>
    ELSE <<PersonName(PyStr(MiddleWord(tok.txt)), PyNone, PyNone)>>

\* the pairs (p, np) of 'for p in gn: for np in ngn: if compatible(p, np)',
\* in the order of the two loops
CompatiblePairs(gn, ngn) ==
    SelectSeq([k \in 1..(Len(gn) * Len(ngn)) |->
                   <<gn[((k - 1) \div Len(ngn)) + 1], ngn[((k - 1) % Len(ngn)) + 1]>>],
              LAMBDA pr : compatible(pr[1], pr[2]))

\* p.name + " " + s
NamePlus(p, s) == PyStr(p.name.s \o <<" ">> \o s)

\* one pass of 'for p in gn: for np in ngn: if compatible(p, np): r.append(...)'
\* of the given names (line 2400, given = TRUE: the gender and case of p) and
\* of the surnames (line 2426: the gender and case of np)
n2_Combine(gn, ngn, given) ==
    [k \in 1..Len(CompatiblePairs(gn, ngn)) |->
        PersonName(NamePlus(CompatiblePairs(gn, ngn)[k][1],
                            CompatiblePairs(gn, ngn)[k][2].name.s),
                   IF given THEN CompatiblePairs(gn, ngn)[k][1].gender
                   ELSE CompatiblePairs(gn, ngn)[k][2].gender,
                   IF given THEN CompatiblePairs(gn, ngn)[k][1].case
                   ELSE CompatiblePairs(gn, ngn)[k][2].case)]

\* next_token = next(token_stream) within the accumulation of a name, whose
\* locals are st: stop is set when the stream is exhausted (StopIteration)
n2_Advance(st) ==
    IF st.stream = <<>> THEN [st EXCEPT !.stop = TRUE]
    ELSE [st EXCEPT !.next_token = Head(st.stream), !.stream = Tail(st.stream)]

\* the loop over the given names and middle abbreviations, lines 2389-2408
RECURSIVE n2_GivenLoop(_, _)
n2_GivenLoop(st, at_sentence_start) ==
    IF st.stop THEN st
    ELSE IF given_names_or_middle_abbrev(st.next_token, at_sentence_start) = <<>> THEN st
    ELSE IF n2_Combine(st.gn, given_names_or_middle_abbrev(st.next_token, at_sentence_start),
                       TRUE) = <<>> THEN st
    ELSE n2_GivenLoop(
             n2_Advance([st EXCEPT
                 !.gn = n2_Combine(st.gn,
                            given_names_or_middle_abbrev(st.next_token, at_sentence_start),
                            TRUE),
                 !.w = @ \o <<" ">> \o
                       (IF st.next_token.txt[1] = "["
                        THEN given_names_or_middle_abbrev(st.next_token,
                                                          at_sentence_start)[1].name.s
                        ELSE st.next_token.txt)]),
             at_sentence_start)

\* eat_surnames(gn, w, patronym, next_token), lines 2414-2434
RECURSIVE eat_surnames(_, _)
eat_surnames(st, at_sentence_start) ==
    IF st.stop THEN st
    ELSE IF surnames(st.next_token, at_sentence_start) = <<>> THEN st
    ELSE IF n2_Combine(st.gn, surnames(st.next_token, at_sentence_start), FALSE) = <<>> THEN st
    ELSE eat_surnames(
             n2_Advance([st EXCEPT
                 !.gn = n2_Combine(st.gn, surnames(st.next_token, at_sentence_start), FALSE),
                 !.w = @ \o <<" ">> \o st.next_token.txt,
                 !.patronym = TRUE]),
             at_sentence_start)

\* the loop over the unknown uppercase words, lines 2446-2452; patronym is set
\* after next(token_stream) has returned
RECURSIVE n2_UnknownLoop(_)
n2_UnknownLoop(st) ==
    IF st.stop \/ ~unknown_surname(st.next_token) THEN st
    ELSE n2_UnknownLoop(
             [n2_Advance([st EXCEPT
                 !.gn = [ix \in 1..Len(st.gn) |->
                            PersonName(NamePlus(st.gn[ix], st.next_token.txt),
                                       st.gn[ix].gender, st.gn[ix].case)],
                 !.w = @ \o <<" ">> \o st.next_token.txt])
              EXCEPT !.patronym = (st.stream # <<>>) \/ st.patronym])

\* lines 2387-2456: the name accumulated from token and what follows it
n2_Accumulate(token, gn, next_token, stream, at_sentence_start) ==
    LET st0 == [gn |-> gn, w |-> token.txt, patronym |-> FALSE,
                next_token |-> next_token, stream |-> stream, stop |-> FALSE]
        st1 == eat_surnames(n2_GivenLoop(st0, at_sentence_start), at_sentence_start)
    IN  IF st1.stop \/ st1.patronym THEN st1
        ELSE IF n2_UnknownLoop(st1).patronym
        THEN eat_surnames(n2_UnknownLoop(st1), at_sentence_start)
        ELSE n2_UnknownLoop(st1)

\* lines 2465-2475: the earlier full name lp matches the given names of p
n2_Match(p, lp) ==
    /\ (~Truthy(p.gender)) \/ (p.gender = lp.gender)
    /\ \A i \in 1..Len(Split(p.name.s, " ")) :
           \E j \in 1..(Len(Split(lp.name.s, " ")) - 1) :
               Split(lp.name.s, " ")[j] = Split(p.name.s, " ")[i]

\* lines 2464-2480: the lists gn can become; a set is iterated in any order,
\* so that any of the matching full names can be the one assigned
RECURSIVE n2_Found(_, _)
n2_Found(gn, names) ==
    IF gn = <<>> THEN { <<>> }
    ELSE { <<h>> \o t :
              h \in (IF \E lp \in names : n2_Match(Head(gn), lp)
                     THEN { PersonName(lp.name, lp.gender, Head(gn).case) :
                               lp \in { x \in names : n2_Match(Head(gn), x) } }
                     ELSE { Head(gn) }),
              t \in n2_Found(Tail(gn), names) }

\* found_name after lines 2458-2480
n2_found_name(gn, names, patronym) ==
    ~patronym /\ \E i \in 1..Len(gn) : \E lp \in names : n2_Match(gn[i], lp)

\* weak without 'not found_name'
n2_weak_dropped(at_sentence_start, w, patronym, found_name, token) ==
    /\ at_sentence_start
    /\ ~HasChar(w, " ")
    /\ ~patronym
    /\ has_other_meaning(token, <<"i", "s", "m">>)
    /\ w \notin NamePreferences_SET

\* weak without "' ' not in w"
n2_weak_any_length(at_sentence_start, w, patronym, found_name, token) ==
    /\ at_sentence_start
    /\ ~patronym
    /\ ~found_name
    /\ has_other_meaning(token, <<"i", "s", "m">>)
    /\ w \notin NamePreferences_SET

\* weak, lines 2488-2489
n2_weak(at_sentence_start, w, patronym, found_name, token) ==
    /\ at_sentence_start
    /\ ~HasChar(w, " ")
    /\ ~patronym
    /\ ~found_name
    /\ has_other_meaning(token, <<"i", "s", "m">>)
    /\ w \notin NamePreferences_SET

\* the update without the ORDINAL tokens being passed over
AfterToken_ordinal(t, at_sentence_start) ==
    IF t.kind = "S_BEGIN" \/ (t.kind = "PUNCTUATION" /\ t.txt = <<":">>) THEN TRUE
    ELSE IF t.kind # "PUNCTUATION" THEN FALSE
    ELSE at_sentence_start

\* the update of at_sentence_start after a token is yielded, lines 1694-1697
\* of annotate and lines 2499-2502 of parse_phrases_2
AfterToken(t, at_sentence_start) ==
    IF t.kind = "S_BEGIN" \/ (t.kind = "PUNCTUATION" /\ t.txt = <<":">>) THEN TRUE
    ELSE IF t.kind # "PUNCTUATION" /\ t.kind # "ORDINAL" THEN FALSE
    ELSE at_sentence_start

VARIABLES
    nm_raw,       \* what the upstream of annotate has not yielded yet
    nm_ann,       \* the tokens annotate has yielded
    nm_ann_flag,  \* at_sentence_start of annotate
    nm_stream,    \* what the upstream of parse_phrases_2 has not yielded yet
    nm_token,     \* token of parse_phrases_2
    nm_names,     \* names of parse_phrases_2
    nm_flag,      \* at_sentence_start of parse_phrases_2
    nm_out,       \* the tokens parse_phrases_2 has yielded
    nm_log,       \* for each token yielded in the loop: the token at the head of
                  \* the iteration, the tokens it took from the stream, the
                  \* candidates before and after them and the locals at line
                  \* 2488 (history)
    nm_pc         \* "idle", "annotate", "start", "loop", "done"

nm_vars == <<nm_raw, nm_ann, nm_ann_flag, nm_stream, nm_token, nm_names, nm_flag, nm_out,
             nm_log, nm_pc>>

nm_Idle ==
    /\ nm_raw = <<>>
    /\ nm_ann = <<>>
    /\ nm_ann_flag = FALSE
    /\ nm_stream = <<>>
    /\ nm_token = NoToken
    /\ nm_names = {}
    /\ nm_flag = FALSE
    /\ nm_out = <<>>
    /\ nm_log = <<>>
    /\ nm_pc = "idle"

\* the tokens of a sentence between S_BEGIN and S_END
NameAlphabet ==
    { Word(<<"J", "oacute", "n">>, PyNone, NoError),
      Word(<<"D", "a", "g", "u", "r">>, PyNone, NoError),
      Word(<<"J", "oacute", "n", "s", "s", "o", "n">>, PyNone, NoError),
      Word(<<"S", "m", "i", "t", "h">>, PyNone, NoError),
      Word(<<"[", "B", ".", "]">>, PyNone, NoError),
      Word(<<"A", "n", "n", "a">>, PyNone, NoError),
      Punctuation(<<":">>, NoError),
      Punctuation(<<",">>, NoError),
      Ordinal(<<"1", ".">>, PyInt(1), NoError) }

\* longer sentences: a full name and then its given name after a colon, after
\* a colon and a comma, and in the next sentence; the given name Annar; a
\* matronym after the name of a man and of a woman
NameSamples ==
    { << Word(<<"D", "a", "g", "u", "r">>, PyNone, NoError), Word(<<"J", "oacute", "n", "s", "s", "o", "n">>, PyNone, NoError),
         Punctuation(<<":">>, NoError), Word(<<"D", "a", "g", "u", "r">>, PyNone, NoError) >>,
      << Word(<<"D", "a", "g", "u", "r">>, PyNone, NoError), Word(<<"J", "oacute", "n", "s", "s", "o", "n">>, PyNone, NoError),
         Punctuation(<<":">>, NoError), Punctuation(<<",">>, NoError),
         Word(<<"D", "a", "g", "u", "r">>, PyNone, NoError) >>,
      << Word(<<"D", "a", "g", "u", "r">>, PyNone, NoError), Word(<<"S", "m", "i", "t", "h">>, PyNone, NoError),
         End_Sentence, Begin_Sentence, Word(<<"D", "a", "g", "u", "r">>, PyNone, NoError) >>,
      << Word(<<"A", "n", "n", "a", "r">>, PyNone, NoError), Word(<<"J", "oacute", "n", "s", "s", "o", "n">>, PyNone, NoError) >>,
      << Punctuation(<<",">>, NoError), Word(<<"A", "n", "n", "a", "r">>, PyNone, NoError),
         Word(<<"J", "oacute", "n", "s", "s", "o", "n">>, PyNone, NoError) >>,
      << Word(<<"D", "a", "g", "u", "r">>, PyNone, NoError), Word(<<"J", "oacute", "n", "s", "d", "oacute", "t", "t", "i", "r">>, PyNone, NoError) >>,
      << Word(<<"A", "n", "n", "a">>, PyNone, NoError), Word(<<"J", "oacute", "n", "s", "d", "oacute", "t", "t", "i", "r">>, PyNone, NoError) >>,
      << Word(<<"B", "j", "ouml", "r", "n">>, PyNone, NoError) >>,
      << Word(<<"B", "j", "ouml", "r", "n">>, PyNone, NoError), Punctuation(<<",">>, NoError) >> }

nm_Init ==
    /\ nm_raw \in { <<Begin_Sentence>> \o body \o <<End_Sentence>> :
                       body \in SeqsUpTo(NameAlphabet, MaxNameLen) \cup NameSamples }
    /\ nm_ann = <<>>
    /\ nm_ann_flag = FALSE
    /\ nm_stream = <<>>
    /\ nm_token = NoToken
    /\ nm_names = {}
    /\ nm_flag = FALSE
    /\ nm_out = <<>>
    /\ nm_log = <<>>
    /\ nm_pc = "annotate"

\* one iteration of the for loop of annotate, lines 1690-1708
nm_Annotate ==
    /\ nm_pc = "annotate"
    /\ nm_raw # <<>>
    /\ nm_ann' = annotate_loop(<<Head(nm_raw)>>, nm_ann_flag, nm_ann, FALSE).out
    /\ nm_ann_flag' = (Head(nm_raw).kind # "WORD" /\ AfterToken(Head(nm_raw), nm_ann_flag))
    /\ nm_raw' = Tail(nm_raw)
    /\ UNCHANGED <<nm_stream, nm_token, nm_names, nm_flag, nm_out, nm_log, nm_pc>>

\* the stream of annotate is exhausted; parse_phrases_2 is iterated over what
\* annotate yielded
nm_AnnotateEnd ==
    /\ nm_pc = "annotate"
    /\ nm_raw = <<>>
    /\ nm_stream' = nm_ann
    /\ nm_pc' = "start"
    /\ UNCHANGED <<nm_raw, nm_ann, nm_ann_flag, nm_token, nm_names, nm_flag, nm_out, nm_log>>

\* lines 2196-2204
nm_Start ==
    /\ nm_pc = "start"
    /\ nm_stream # <<>>
    /\ nm_token' = Head(nm_stream)
    /\ nm_stream' = Tail(nm_stream)
    /\ nm_names' = {}
    /\ nm_flag' = FALSE
    /\ nm_pc' = "loop"
    /\ UNCHANGED <<nm_raw, nm_ann, nm_ann_flag, nm_out, nm_log>>

\* next(token_stream) at line 2207 raises StopIteration: the final token is
\* yielded, lines 2505-2510
nm_Final ==
    /\ nm_pc = "loop"
    /\ nm_stream = <<>>
    /\ nm_out' = Append(nm_out, nm_token)
    /\ nm_pc' = "done"
    /\ UNCHANGED <<nm_raw, nm_ann, nm_ann_flag, nm_stream, nm_token, nm_names, nm_flag,
                   nm_log>>

\* an iteration of the loop with a token that is no given name, or is a WORD
\* with fl = "nafn" (lines 2376-2380): it is yielded, lines 2496-2503; lines
\* 2210-2270 change NUMBER and TIME tokens only
nm_Other ==
    /\ nm_pc = "loop"
    /\ nm_stream # <<>>
    /\ nm_token.kind \notin {"NUMBER", "TIME"}
    /\ \E nafn \in { /\ nm_token.kind = "WORD"
                     /\ Truthy(nm_token.val)
                     /\ Fl(nm_token.val.l[1]) = <<"n", "a", "f", "n">> } :
          /\ nafn \/ given_names(nm_token, nm_flag) = <<>>
          /\ \E t \in { IF nafn
                        THEN Person(nm_token.txt,
                                    PyList([i \in 1..Len(ALL_CASES) |->
                                               PersonName(PyStr(nm_token.txt),
                                                          PyStr(Ordfl(nm_token.val.l[1])),
                                                          PyStr(ALL_CASES[i]))]),
                                    nm_token.error)
                        ELSE nm_token } :
                /\ nm_out' = Append(nm_out, t)
                /\ nm_flag' = AfterToken(t, nm_flag)
                /\ nm_log' = Append(nm_log, [head |-> nm_token, used |-> 1,
                                             flag |-> nm_flag, patronym |-> FALSE,
                                             found_name |-> FALSE,
                                             gn0 |-> <<>>, taken |-> <<>>, gn |-> <<>>,
                                             emitted |-> t])
    /\ nm_token' = Head(nm_stream)
    /\ nm_stream' = Tail(nm_stream)
    /\ UNCHANGED <<nm_raw, nm_ann, nm_ann_flag, nm_names, nm_pc>>

\* an iteration of the loop with a given name, lines 2382-2503: st holds the
\* locals after line 2456; when next(token_stream) raised StopIteration within
\* the name, token is yielded as it was, lines 2505-2510
nm_Name ==
    /\ nm_pc = "loop"
    /\ nm_stream # <<>>
    /\ ~(/\ nm_token.kind = "WORD"
         /\ Truthy(nm_token.val)
         /\ Fl(nm_token.val.l[1]) = <<"n", "a", "f", "n">>)
    /\ given_names(nm_token, nm_flag) # <<>>
    /\ \E st \in { n2_Accumulate(nm_token, given_names(nm_token, nm_flag), Head(nm_stream),
                                 Tail(nm_stream), nm_flag) } :
          IF st.stop
          THEN /\ nm_out' = Append(nm_out, nm_token)
               /\ nm_stream' = <<>>
               /\ nm_pc' = "done"
               /\ UNCHANGED <<nm_token, nm_names, nm_flag, nm_log>>
          ELSE /\ \E found_name \in { n2_found_name(st.gn, nm_names, st.patronym) } :
                  \E gn \in (IF st.patronym THEN { st.gn } ELSE n2_Found(st.gn, nm_names)) :
                  \E t \in { IF n2_weak(nm_flag, st.w, st.patronym, found_name, nm_token)
                             THEN nm_token
                             ELSE Person(st.w, PyList(gn), nm_token.error) } :
                     /\ nm_names' = IF st.patronym
                                    THEN nm_names \cup { st.gn[i] : i \in 1..Len(st.gn) }
                                    ELSE nm_names
                     /\ nm_out' = Append(nm_out, t)
                     /\ nm_flag' = AfterToken(t, nm_flag)
                     /\ nm_log' = Append(nm_log, [head |-> nm_token,
                                                  used |-> Len(nm_stream) - Len(st.stream),
                                                  flag |-> nm_flag, patronym |-> st.patronym,
                                                  found_name |-> found_name,
                                                  gn0 |-> given_names(nm_token, nm_flag),
                                                  taken |-> SubSeq(nm_stream, 1,
                                                      Len(nm_stream) - Len(st.stream) - 1),
                                                  gn |-> st.gn,
                                                  emitted |-> t])
               /\ nm_token' = st.next_token
               /\ nm_stream' = st.stream
               /\ nm_pc' = nm_pc
    /\ UNCHANGED <<nm_raw, nm_ann, nm_ann_flag>>

(***************************************************************************)
(* parse_errors_1(token_stream) on repeated words                          *)
(***************************************************************************)
VARIABLES
    pe_input,   \* the tokens of the stream
    pe_out,     \* the tokens parse_errors_1 yields
    pe_static,  \* what parse_static_phrases makes of them: tokens and exception
    pe_ann,     \* what annotate makes of those: tokens and exception
    pe_pc       \* "idle", "call", "done", "annotated"

pe_vars == <<pe_input, pe_out, pe_static, pe_ann, pe_pc>>

pe_Idle ==
    /\ pe_input = <<>>
    /\ pe_out = <<>>
    /\ pe_static = [out |-> <<>>, raised |-> ""]
    /\ pe_ann = [out |-> <<>>, raised |-> ""]
    /\ pe_pc = "idle"

\* tokens as parse_sentences yields them: words without meanings
ErrorAlphabet ==
    { Word(<<"g", "oacute", "eth", "u", "r">>, PyNone, NoError),
      Word(<<"e", "k", "k", "i">>, PyNone, NoError),
      Word(<<"h", "a", "n", "n">>, PyNone, NoError),
      Punctuation(<<",">>, NoError) }

\* a sentence with a static phrase before a repeated word
ErrorSamples ==
    { << Word(<<"t", "i", "l">>, PyNone, NoError),
         Word(<<"d", "aelig", "m", "i", "s">>, PyNone, NoError),
         Word(<<"h", "a", "n", "n">>, PyNone, NoError),
         Word(<<"h", "a", "n", "n">>, PyNone, NoError) >> }

pe_Init ==
    /\ pe_input \in { <<Begin_Sentence>> \o body \o <<End_Sentence>> :
                         body \in SeqsUpTo(ErrorAlphabet, MaxErrLen) \cup ErrorSamples }
    /\ pe_out = <<>>
    /\ pe_static = [out |-> <<>>, raised |-> ""]
    /\ pe_ann = [out |-> <<>>, raised |-> ""]
    /\ pe_pc = "call"

\* the generator is run to its end
pe_Call ==
    /\ pe_pc = "call"
    /\ pe_out' = parse_errors_1(pe_input)
    /\ pe_pc' = "done"
    /\ UNCHANGED <<pe_input, pe_static, pe_ann>>

\* the stages of tokenize() that follow, lines 2955 and 2965-2971: test,
\* parse_static_phrases and annotate, each run to its end
pe_Annotate ==
    /\ pe_pc = "done"
    /\ \E auto_uppercase \in BOOLEAN :
           /\ pe_static' = parse_static_phrases(test(pe_out), auto_uppercase)
           /\ pe_ann' = annotate(pe_static'.out, auto_uppercase)
    /\ pe_pc' = "annotated"
    /\ UNCHANGED <<pe_input, pe_out>>

(***************************************************************************)
(* disambiguate_phrases(token_stream)                                      *)
(***************************************************************************)
\* the words of the ambiguous phrases and the meanings the lexicon holds for
\* them
TIL == <<"t", "i", "l">>

THESS == <<"thorn", "e", "s", "s">>

VEGNA == <<"v", "e", "g", "n", "a">>

AD == <<"a", "eth">>

MEANING_TIL_FS == BIN_Meaning(TIL, 0, <<"f", "s">>, <<"a", "l", "m">>, TIL, <<"-">>)

MEANING_TIL_AO == BIN_Meaning(TIL, 0, <<"a", "o">>, <<"a", "l", "m">>, TIL, <<"-">>)

MEANING_THESS_FN == BIN_Meaning(THESS, 0, <<"f", "n">>, <<"a", "l", "m">>, THESS, <<"E", "F", "E", "T">>)

MEANING_THESS_PFN == BIN_Meaning(THESS, 0, <<"p", "f", "n">>, <<"a", "l", "m">>, THESS, <<"E", "F", "E", "T">>)

MEANING_VEGNA_FS == BIN_Meaning(VEGNA, 0, <<"f", "s">>, <<"a", "l", "m">>, VEGNA, <<"-">>)

MEANING_VEGNA_AO == BIN_Meaning(VEGNA, 0, <<"a", "o">>, <<"a", "l", "m">>, VEGNA, <<"-">>)

MEANING_AD_ST == BIN_Meaning(AD, 0, <<"s", "t">>, <<"a", "l", "m">>, AD, <<"-">>)

MEANING_AD_NHM == BIN_Meaning(AD, 0, <<"n", "h", "m">>, <<"a", "l", "m">>, AD, <<"-">>)

\* AmbigPhrases.DICT, an excerpt: 'til thess ad' is phrase number 0 and
\* 'thess vegna' is phrase number 1, each filed under its first word
AmbigPhrases_DICT ==
    { [txt |-> TIL,
       val |-> << [sl |-> << THESS, AD >>, ix |-> 0] >>],
      [txt |-> THESS,
       val |-> << [sl |-> << VEGNA >>, ix |-> 1] >>] }

\* AmbigPhrases.get_cats(ix): the category declared for each word of phrase ix
AmbigPhrases_get_cats(ix) ==
    IF ix = 0 THEN << <<"f", "s">>, <<"f", "n">>, <<"s", "t">> >>
    ELSE << <<"f", "n">>, <<"a", "o">> >>

\* [m for m in t.val if m.ordfl == cat]
RECURSIVE CategoryMeanings(_, _)
CategoryMeanings(ms, cat) ==
    IF ms = <<>> THEN <<>>
    ELSE (IF Ordfl(Head(ms)) = cat THEN <<Head(ms)>> ELSE <<>>)
         \o CategoryMeanings(Tail(ms), cat)

\* lines 2690-2696: the token yielded for the queued token t and the category
\* cat
da_Pruned(t, cat) ==
    IF cat = <<"f", "s">>
    THEN Word(t.txt,
              PyList(<< BIN_Meaning(Lower(t.txt), 0, <<"f", "s">>, <<"a", "l", "m">>,
                                    Lower(t.txt), <<"-">>) >>),
              NoError)
    ELSE Word(t.txt, PyList(CategoryMeanings(t.val.l, cat)), NoError)

\* lines 2687-2696: 'for t, cat in zip(tq, cats)' pairs the queue with the
\* categories from the front and stops at the shorter of the two
da_Matched(tq, cats) ==
    [i \in 1..(IF Len(tq) < Len(cats) THEN Len(tq) ELSE Len(cats)) |->
        da_Pruned(tq[i], cats[i])]

VARIABLES
    da_input,    \* the tokens handed to disambiguate_phrases (history)
    da_stream,   \* what next(token_stream) has not returned yet
    da_tq,       \* local: tq, the token queue
    da_state,    \* local: state, the phrases being considered
    da_out,      \* tokens yielded so far
    da_pc        \* "idle", "loop", "done"

da_vars == <<da_input, da_stream, da_tq, da_state, da_out, da_pc>>

da_Idle ==
    /\ da_input = <<>>
    /\ da_stream = <<>>
    /\ da_tq = <<>>
    /\ da_state = <<>>
    /\ da_out = <<>>
    /\ da_pc = "idle"

\* the tokens the input of disambiguate_phrases is drawn from: words with the
\* meanings annotate gave them
AmbigAlphabet ==
    { Word(TIL, PyList(<< MEANING_TIL_FS, MEANING_TIL_AO >>), NoError),
      Word(THESS, PyList(<< MEANING_THESS_FN, MEANING_THESS_PFN >>), NoError),
      Word(VEGNA, PyList(<< MEANING_VEGNA_FS, MEANING_VEGNA_AO >>), NoError),
      Word(AD, PyList(<< MEANING_AD_ST, MEANING_AD_NHM >>), NoError),
      Punctuation(<<",">>, NoError) }

\* lines 2645-2647: tq = [], state = defaultdict(list), pdict = AmbigPhrases.DICT
da_Init ==
    /\ da_input \in SeqsUpTo(AmbigAlphabet, MaxAmbigLen)
    /\ da_stream = da_input
    /\ da_tq = <<>>
    /\ da_state = <<>>
    /\ da_out = <<>>
    /\ da_pc = "loop"

\* a pass of 'while True' with a token that is not a WORD, lines 2655-2665
da_NotWord ==
    /\ da_pc = "loop"
    /\ da_stream # <<>>
    /\ Head(da_stream).kind # "WORD"
    /\ da_out' = da_out \o da_tq \o <<Head(da_stream)>>
    /\ da_tq' = <<>>
    /\ da_state' = <<>>
    /\ da_stream' = Tail(da_stream)
    /\ UNCHANGED <<da_input, da_pc>>

\* a pass with a WORD that the state expects, lines 2677-2707 and 2714-2726:
\* the token is queued; a complete match yields the pruned tokens and
\* discards the queue and the state (w = "" is in no dictionary)
da_Expected ==
    /\ da_pc = "loop"
    /\ da_stream # <<>>
    /\ Head(da_stream).kind = "WORD"
    /\ StateOf(da_state, Lower(Head(da_stream).txt)) # <<>>
    /\ \E slist \in { StateOf(da_state, Lower(Head(da_stream).txt)) } :
          IF Complete(slist) # 0
          THEN /\ da_out' = da_out \o da_Matched(Append(da_tq, Head(da_stream)),
                                 AmbigPhrases_get_cats(slist[Complete(slist)].ix))
               /\ da_tq' = <<>>
               /\ da_state' = <<>>
          ELSE /\ da_out' = da_out
               /\ da_tq' = Append(da_tq, Head(da_stream))
               /\ da_state' = add_to_state(slist)
                                 \o (IF InTable(AmbigPhrases_DICT, Lower(Head(da_stream).txt))
                                     THEN add_to_state(TableValue(AmbigPhrases_DICT,
                                                           Lower(Head(da_stream).txt)))
                                     ELSE <<>>)
    /\ da_stream' = Tail(da_stream)
    /\ UNCHANGED <<da_input, da_pc>>

\* a pass with a WORD that the state does not expect, lines 2708-2726: the
\* queue is yielded; the word starts a new queue or is passed through
da_Unexpected ==
    /\ da_pc = "loop"
    /\ da_stream # <<>>
    /\ Head(da_stream).kind = "WORD"
    /\ StateOf(da_state, Lower(Head(da_stream).txt)) = <<>>
    /\ IF InTable(AmbigPhrases_DICT, Lower(Head(da_stream).txt))
       THEN /\ da_out' = da_out \o da_tq
            /\ da_tq' = <<Head(da_stream)>>
            /\ da_state' = add_to_state(TableValue(AmbigPhrases_DICT,
                                                   Lower(Head(da_stream).txt)))
       ELSE /\ da_out' = (da_out \o da_tq) \o <<Head(da_stream)>>
            /\ da_tq' = <<>>
            /\ da_state' = <<>>
    /\ da_stream' = Tail(da_stream)
    /\ UNCHANGED <<da_input, da_pc>>

\* lines 2728-2732: the stream is exhausted, the queue is yielded
da_Final ==
    /\ da_pc = "loop"
    /\ da_stream = <<>>
    /\ da_out' = da_out \o da_tq
    /\ da_tq' = <<>>
    /\ da_pc' = "done"
    /\ UNCHANGED <<da_input, da_stream, da_state>>

(***************************************************************************)
(* Specifications                                                          *)
(***************************************************************************)
vars == <<ps_vars, rn_vars, pd_vars, pp_vars, pt_vars, p1_vars, sp_vars, re_vars, sc_vars, tr_vars, am_vars, rl_vars, cp_vars, nm_vars, pe_vars, da_vars>>

InitSent == ps_Init /\ rn_Idle /\ pd_Idle /\ pp_Idle /\ pt_Idle /\ p1_Idle /\ sp_Idle /\ re_Idle /\ sc_Idle /\ tr_Idle /\ am_Idle /\ rl_Idle /\ cp_Idle /\ nm_Idle /\ pe_Idle /\ da_Idle

NextSent ==
    \/ ps_Start /\ UNCHANGED <<rn_vars, pd_vars, pp_vars, pt_vars, p1_vars, sp_vars, re_vars, sc_vars, tr_vars, am_vars, rl_vars, cp_vars, nm_vars, pe_vars, da_vars>>
    \/ ps_Loop /\ UNCHANGED <<rn_vars, pd_vars, pp_vars, pt_vars, p1_vars, sp_vars, re_vars, sc_vars, tr_vars, am_vars, rl_vars, cp_vars, nm_vars, pe_vars, da_vars>>
    \/ ps_Final /\ UNCHANGED <<rn_vars, pd_vars, pp_vars, pt_vars, p1_vars, sp_vars, re_vars, sc_vars, tr_vars, am_vars, rl_vars, cp_vars, nm_vars, pe_vars, da_vars>>

\* parse_sentences run on every token sequence of at most MaxSentLen tokens
SpecSent == InitSent /\ [][NextSent]_vars

InitRoman == rn_Init /\ ps_Idle /\ pd_Idle /\ pp_Idle /\ pt_Idle /\ p1_Idle /\ sp_Idle /\ re_Idle /\ sc_Idle /\ tr_Idle /\ am_Idle /\ rl_Idle /\ cp_Idle /\ nm_Idle /\ pe_Idle /\ da_Idle

NextRoman == rn_Call /\ UNCHANGED <<ps_vars, pd_vars, pp_vars, pt_vars, p1_vars, sp_vars, re_vars, sc_vars, tr_vars, am_vars, rl_vars, cp_vars, nm_vars, pe_vars, da_vars>>

\* roman_to_int run on every canonical numeral up to MaxRomanValue and on
\* every string of the regex
SpecRoman == InitRoman /\ [][NextRoman]_vars

InitDigits == pd_Init /\ ps_Idle /\ rn_Idle /\ pp_Idle /\ pt_Idle /\ p1_Idle /\ sp_Idle /\ re_Idle /\ sc_Idle /\ tr_Idle /\ am_Idle /\ rl_Idle /\ cp_Idle /\ nm_Idle /\ pe_Idle /\ da_Idle

NextDigits ==
    \/ pd_Parse /\ UNCHANGED <<ps_vars, rn_vars, pp_vars, pt_vars, p1_vars, sp_vars, re_vars, sc_vars, tr_vars, am_vars, rl_vars, cp_vars, nm_vars, pe_vars, da_vars>>
    \/ pd_Reparse /\ UNCHANGED <<ps_vars, rn_vars, pp_vars, pt_vars, p1_vars, sp_vars, re_vars, sc_vars, tr_vars, am_vars, rl_vars, cp_vars, nm_vars, pe_vars, da_vars>>

\* parse_digits run on every lexeme of at most MaxDigitsParts pieces and MaxDigitsLen characters
SpecDigits == InitDigits /\ [][NextDigits]_vars

InitPart == pp_Init /\ ps_Idle /\ rn_Idle /\ pd_Idle /\ pt_Idle /\ p1_Idle /\ sp_Idle /\ re_Idle /\ sc_Idle /\ tr_Idle /\ am_Idle /\ rl_Idle /\ cp_Idle /\ nm_Idle /\ pe_Idle /\ da_Idle

NextPart ==
    \/ pp_Start /\ UNCHANGED <<ps_vars, rn_vars, pd_vars, pt_vars, p1_vars, sp_vars, re_vars, sc_vars, tr_vars, am_vars, rl_vars, cp_vars, nm_vars, pe_vars, da_vars>>
    \/ pp_Loop /\ UNCHANGED <<ps_vars, rn_vars, pd_vars, pt_vars, p1_vars, sp_vars, re_vars, sc_vars, tr_vars, am_vars, rl_vars, cp_vars, nm_vars, pe_vars, da_vars>>

\* parse_particles run on every token sequence of at most MaxPartLen tokens
SpecPart == InitPart /\ [][NextPart]_vars

InitTok == pt_Init /\ ps_Idle /\ rn_Idle /\ pd_Idle /\ pp_Idle /\ p1_Idle /\ sp_Idle /\ re_Idle /\ sc_Idle /\ tr_Idle /\ am_Idle /\ rl_Idle /\ cp_Idle /\ nm_Idle /\ pe_Idle /\ da_Idle

NextTok ==
    \/ pt_For /\ UNCHANGED <<ps_vars, rn_vars, pd_vars, pp_vars, p1_vars, sp_vars, re_vars, sc_vars, tr_vars, am_vars, rl_vars, cp_vars, nm_vars, pe_vars, da_vars>>
    \/ pt_While /\ UNCHANGED <<ps_vars, rn_vars, pd_vars, pp_vars, p1_vars, sp_vars, re_vars, sc_vars, tr_vars, am_vars, rl_vars, cp_vars, nm_vars, pe_vars, da_vars>>

\* parse_tokens run on every text of at most MaxTextLen characters and on
\* the sample texts
SpecTok == InitTok /\ [][NextTok]_vars

InitPhr1 == p1_Init /\ rn_Idle /\ pd_Idle /\ pp_Idle /\ pt_Idle /\ sp_Idle /\ re_Idle /\ sc_Idle /\ tr_Idle /\ am_Idle /\ rl_Idle /\ cp_Idle /\ nm_Idle /\ pe_Idle /\ da_Idle

NextPhr1 ==
    \/ ps_Start /\ UNCHANGED <<rn_vars, pd_vars, pp_vars, pt_vars, p1_vars, sp_vars, re_vars, sc_vars, tr_vars, am_vars, rl_vars, cp_vars, nm_vars, pe_vars, da_vars>>
    \/ ps_Loop /\ UNCHANGED <<rn_vars, pd_vars, pp_vars, pt_vars, p1_vars, sp_vars, re_vars, sc_vars, tr_vars, am_vars, rl_vars, cp_vars, nm_vars, pe_vars, da_vars>>
    \/ ps_Final /\ UNCHANGED <<rn_vars, pd_vars, pp_vars, pt_vars, p1_vars, sp_vars, re_vars, sc_vars, tr_vars, am_vars, rl_vars, cp_vars, nm_vars, pe_vars, da_vars>>
    \/ p1_Upstream /\ UNCHANGED <<ps_vars, rn_vars, pd_vars, pp_vars, pt_vars, sp_vars, re_vars, sc_vars, tr_vars, am_vars, rl_vars, cp_vars, nm_vars, pe_vars, da_vars>>
    \/ p1_Start /\ UNCHANGED <<ps_vars, rn_vars, pd_vars, pp_vars, pt_vars, sp_vars, re_vars, sc_vars, tr_vars, am_vars, rl_vars, cp_vars, nm_vars, pe_vars, da_vars>>
    \/ p1_Loop /\ UNCHANGED <<ps_vars, rn_vars, pd_vars, pp_vars, pt_vars, sp_vars, re_vars, sc_vars, tr_vars, am_vars, rl_vars, cp_vars, nm_vars, pe_vars, da_vars>>
    \/ p1_Final /\ UNCHANGED <<ps_vars, rn_vars, pd_vars, pp_vars, pt_vars, sp_vars, re_vars, sc_vars, tr_vars, am_vars, rl_vars, cp_vars, nm_vars, pe_vars, da_vars>>

\* parse_sentences, the stages up to annotate and parse_phrases_1 run on every
\* token sequence of at most MaxPhrLen tokens and on the sample sequences
SpecPhr1 == InitPhr1 /\ [][NextPhr1]_vars

InitStatic == sp_Init /\ ps_Idle /\ rn_Idle /\ pd_Idle /\ pp_Idle /\ pt_Idle /\ p1_Idle /\ re_Idle /\ sc_Idle /\ tr_Idle /\ am_Idle /\ rl_Idle /\ cp_Idle /\ nm_Idle /\ pe_Idle /\ da_Idle

NextStatic ==
    \/ sp_Loop /\ UNCHANGED <<ps_vars, rn_vars, pd_vars, pp_vars, pt_vars, p1_vars, re_vars, sc_vars, tr_vars, am_vars, rl_vars, cp_vars, nm_vars, pe_vars, da_vars>>
    \/ sp_Final /\ UNCHANGED <<ps_vars, rn_vars, pd_vars, pp_vars, pt_vars, p1_vars, re_vars, sc_vars, tr_vars, am_vars, rl_vars, cp_vars, nm_vars, pe_vars, da_vars>>

\* parse_static_phrases run on every token sequence of at most MaxStaticLen
\* tokens, with either order of the two phrases in the dictionary
SpecStatic == InitStatic /\ [][NextStatic]_vars

InitEnt ==
    re_Init /\ ps_Idle /\ rn_Idle /\ pd_Idle /\ pp_Idle /\ pt_Idle /\ p1_Idle /\ sp_Idle /\ sc_Idle /\ tr_Idle /\ am_Idle /\ rl_Idle /\ cp_Idle /\ nm_Idle /\ pe_Idle /\ da_Idle

NextEnt ==
    \/ re_Loop /\ UNCHANGED <<ps_vars, rn_vars, pd_vars, pp_vars, pt_vars, p1_vars, sp_vars, sc_vars, tr_vars, am_vars, rl_vars, cp_vars, nm_vars, pe_vars, da_vars>>
    \/ re_Final /\ UNCHANGED <<ps_vars, rn_vars, pd_vars, pp_vars, pt_vars, p1_vars, sp_vars, sc_vars, tr_vars, am_vars, rl_vars, cp_vars, nm_vars, pe_vars, da_vars>>

\* the loop of recognize_entities run on every token sequence of at most
\* MaxEntLen tokens and on the sample sequences
SpecEnt == InitEnt /\ [][NextEnt]_vars

InitSession ==
    sc_Init /\ ps_Idle /\ rn_Idle /\ pd_Idle /\ pp_Idle /\ pt_Idle /\ p1_Idle /\ sp_Idle
    /\ re_Idle /\ tr_Idle /\ am_Idle /\ rl_Idle /\ cp_Idle /\ nm_Idle /\ pe_Idle /\ da_Idle

NextSession ==
    \/ SessionContext_init /\ UNCHANGED <<ps_vars, rn_vars, pd_vars, pp_vars, pt_vars, p1_vars, sp_vars, re_vars, tr_vars, am_vars, rl_vars, cp_vars, nm_vars, pe_vars, da_vars>>
    \/ SessionContext_enter /\ UNCHANGED <<ps_vars, rn_vars, pd_vars, pp_vars, pt_vars, p1_vars, sp_vars, re_vars, tr_vars, am_vars, rl_vars, cp_vars, nm_vars, pe_vars, da_vars>>
    \/ sc_BodyOp /\ UNCHANGED <<ps_vars, rn_vars, pd_vars, pp_vars, pt_vars, p1_vars, sp_vars, re_vars, tr_vars, am_vars, rl_vars, cp_vars, nm_vars, pe_vars, da_vars>>
    \/ sc_BodyEnd /\ UNCHANGED <<ps_vars, rn_vars, pd_vars, pp_vars, pt_vars, p1_vars, sp_vars, re_vars, tr_vars, am_vars, rl_vars, cp_vars, nm_vars, pe_vars, da_vars>>
    \/ SessionContext_exit /\ UNCHANGED <<ps_vars, rn_vars, pd_vars, pp_vars, pt_vars, p1_vars, sp_vars, re_vars, tr_vars, am_vars, rl_vars, cp_vars, nm_vars, pe_vars, da_vars>>

\* a with statement over a SessionContext, for every call of the constructor
\* and every body of at most MaxBodyOps calls on the session
SpecSession == InitSession /\ [][NextSession]_vars

InitRelay ==
    tr_Init /\ ps_Idle /\ rn_Idle /\ pd_Idle /\ pp_Idle /\ pt_Idle /\ p1_Idle /\ sp_Idle
    /\ re_Idle /\ sc_Idle /\ am_Idle /\ rl_Idle /\ cp_Idle /\ nm_Idle /\ pe_Idle /\ da_Idle

NextRelay ==
    \/ tr_RawTokenize /\ UNCHANGED <<ps_vars, rn_vars, pd_vars, pp_vars, pt_vars, p1_vars, sp_vars, re_vars, sc_vars, am_vars, rl_vars, cp_vars, nm_vars, pe_vars, da_vars>>
    \/ tr_Tokenize /\ UNCHANGED <<ps_vars, rn_vars, pd_vars, pp_vars, pt_vars, p1_vars, sp_vars, re_vars, sc_vars, am_vars, rl_vars, cp_vars, nm_vars, pe_vars, da_vars>>

\* test after parse_errors_1 and test_2 run on every token sequence of at
\* most MaxRelayLen tokens
SpecRelay == InitRelay /\ [][NextRelay]_vars

InitAmount ==
    am_Init /\ ps_Idle /\ rn_Idle /\ pd_Idle /\ pp_Idle /\ p1_Idle /\ sp_Idle /\ re_Idle
    /\ sc_Idle /\ tr_Idle /\ rl_Idle /\ cp_Idle /\ nm_Idle /\ pe_Idle /\ da_Idle

NextAmount ==
    \/ pt_For /\ UNCHANGED <<ps_vars, rn_vars, pd_vars, pp_vars, p1_vars, sp_vars, re_vars, sc_vars, tr_vars, am_vars, rl_vars, cp_vars, nm_vars, pe_vars, da_vars>>
    \/ pt_While /\ UNCHANGED <<ps_vars, rn_vars, pd_vars, pp_vars, p1_vars, sp_vars, re_vars, sc_vars, tr_vars, am_vars, rl_vars, cp_vars, nm_vars, pe_vars, da_vars>>
    \/ am_Particles /\ UNCHANGED <<ps_vars, rn_vars, pd_vars, pt_vars, p1_vars, sp_vars, re_vars, sc_vars, tr_vars, am_vars, rl_vars, cp_vars, nm_vars, pe_vars, da_vars>>
    \/ pp_Start /\ UNCHANGED <<ps_vars, rn_vars, pd_vars, pt_vars, p1_vars, sp_vars, re_vars, sc_vars, tr_vars, am_vars, rl_vars, cp_vars, nm_vars, pe_vars, da_vars>>
    \/ pp_Loop /\ UNCHANGED <<ps_vars, rn_vars, pd_vars, pt_vars, p1_vars, sp_vars, re_vars, sc_vars, tr_vars, am_vars, rl_vars, cp_vars, nm_vars, pe_vars, da_vars>>
    \/ am_Sentences /\ UNCHANGED <<rn_vars, pd_vars, pp_vars, pt_vars, p1_vars, sp_vars, re_vars, sc_vars, tr_vars, am_vars, rl_vars, cp_vars, nm_vars, pe_vars, da_vars>>
    \/ ps_Start /\ UNCHANGED <<rn_vars, pd_vars, pp_vars, pt_vars, p1_vars, sp_vars, re_vars, sc_vars, tr_vars, am_vars, rl_vars, cp_vars, nm_vars, pe_vars, da_vars>>
    \/ ps_Loop /\ UNCHANGED <<rn_vars, pd_vars, pp_vars, pt_vars, p1_vars, sp_vars, re_vars, sc_vars, tr_vars, am_vars, rl_vars, cp_vars, nm_vars, pe_vars, da_vars>>
    \/ ps_Final /\ UNCHANGED <<rn_vars, pd_vars, pp_vars, pt_vars, p1_vars, sp_vars, re_vars, sc_vars, tr_vars, am_vars, rl_vars, cp_vars, nm_vars, pe_vars, da_vars>>
    \/ p1_Upstream /\ UNCHANGED <<ps_vars, rn_vars, pd_vars, pp_vars, pt_vars, sp_vars, re_vars, sc_vars, tr_vars, am_vars, rl_vars, cp_vars, nm_vars, pe_vars, da_vars>>
    \/ p1_Start /\ UNCHANGED <<ps_vars, rn_vars, pd_vars, pp_vars, pt_vars, sp_vars, re_vars, sc_vars, tr_vars, am_vars, rl_vars, cp_vars, nm_vars, pe_vars, da_vars>>
    \/ p1_Loop /\ UNCHANGED <<ps_vars, rn_vars, pd_vars, pp_vars, pt_vars, sp_vars, re_vars, sc_vars, tr_vars, am_vars, rl_vars, cp_vars, nm_vars, pe_vars, da_vars>>
    \/ p1_Final /\ UNCHANGED <<ps_vars, rn_vars, pd_vars, pp_vars, pt_vars, sp_vars, re_vars, sc_vars, tr_vars, am_vars, rl_vars, cp_vars, nm_vars, pe_vars, da_vars>>
    \/ am_Phrases2 /\ UNCHANGED <<ps_vars, rn_vars, pd_vars, pp_vars, pt_vars, p1_vars, sp_vars, re_vars, sc_vars, tr_vars, rl_vars, cp_vars, nm_vars, pe_vars, da_vars>>
    \/ am_Entities /\ UNCHANGED <<ps_vars, rn_vars, pd_vars, pp_vars, pt_vars, p1_vars, sp_vars, re_vars, sc_vars, tr_vars, rl_vars, cp_vars, nm_vars, pe_vars, da_vars>>

\* tokenize() run on each of the texts of AmountTexts, stage by stage
SpecAmount == InitAmount /\ [][NextAmount]_vars

InitRelease ==
    rl_Init /\ ps_Idle /\ rn_Idle /\ pd_Idle /\ pp_Idle /\ pt_Idle /\ p1_Idle /\ sp_Idle
    /\ re_Idle /\ sc_Idle /\ tr_Idle /\ am_Idle /\ cp_Idle /\ nm_Idle /\ pe_Idle /\ da_Idle

NextRelease ==
    \/ rl_Next /\ UNCHANGED <<ps_vars, rn_vars, pd_vars, pp_vars, pt_vars, p1_vars, sp_vars, re_vars, sc_vars, tr_vars, am_vars, cp_vars, nm_vars, pe_vars, da_vars>>
    \/ rl_Abandon /\ UNCHANGED <<ps_vars, rn_vars, pd_vars, pp_vars, pt_vars, p1_vars, sp_vars, re_vars, sc_vars, tr_vars, am_vars, cp_vars, nm_vars, pe_vars, da_vars>>
    \/ rl_Source /\ UNCHANGED <<ps_vars, rn_vars, pd_vars, pp_vars, pt_vars, p1_vars, sp_vars, re_vars, sc_vars, tr_vars, am_vars, cp_vars, nm_vars, pe_vars, da_vars>>
    \/ (\E s \in 1..Len(ReleaseStages) : rl_Enter(s)) /\ UNCHANGED <<ps_vars, rn_vars, pd_vars, pp_vars, pt_vars, p1_vars, sp_vars, re_vars, sc_vars, tr_vars, am_vars, cp_vars, nm_vars, pe_vars, da_vars>>
    \/ (\E s \in 1..Len(ReleaseStages) : rl_Resume(s)) /\ UNCHANGED <<ps_vars, rn_vars, pd_vars, pp_vars, pt_vars, p1_vars, sp_vars, re_vars, sc_vars, tr_vars, am_vars, cp_vars, nm_vars, pe_vars, da_vars>>
    \/ (\E s \in 1..Len(ReleaseStages) : rl_Item(s)) /\ UNCHANGED <<ps_vars, rn_vars, pd_vars, pp_vars, pt_vars, p1_vars, sp_vars, re_vars, sc_vars, tr_vars, am_vars, cp_vars, nm_vars, pe_vars, da_vars>>
    \/ (\E s \in 1..Len(ReleaseStages) : rl_Stop(s)) /\ UNCHANGED <<ps_vars, rn_vars, pd_vars, pp_vars, pt_vars, p1_vars, sp_vars, re_vars, sc_vars, tr_vars, am_vars, cp_vars, nm_vars, pe_vars, da_vars>>
    \/ (\E s \in 1..Len(ReleaseStages) : rl_Raise(s)) /\ UNCHANGED <<ps_vars, rn_vars, pd_vars, pp_vars, pt_vars, p1_vars, sp_vars, re_vars, sc_vars, tr_vars, am_vars, cp_vars, nm_vars, pe_vars, da_vars>>
    \/ (\E s \in 1..Len(ReleaseStages) : rl_Finalize(s)) /\ UNCHANGED <<ps_vars, rn_vars, pd_vars, pp_vars, pt_vars, p1_vars, sp_vars, re_vars, sc_vars, tr_vars, am_vars, cp_vars, nm_vars, pe_vars, da_vars>>

\* a consumer iterating the generator of annotate, of parse_phrases_1 or of
\* recognize_entities over a source of at most MaxReleaseItems tokens
SpecRelease == InitRelease /\ [][NextRelease]_vars

InitCompat ==
    cp_Init /\ ps_Idle /\ rn_Idle /\ pd_Idle /\ pp_Idle /\ pt_Idle /\ p1_Idle /\ sp_Idle /\ re_Idle /\ sc_Idle /\ tr_Idle /\ am_Idle /\ rl_Idle /\ nm_Idle /\ pe_Idle /\ da_Idle

NextCompat ==
    \/ cp_Call /\ UNCHANGED <<ps_vars, rn_vars, pd_vars, pp_vars, pt_vars, p1_vars, sp_vars, re_vars, sc_vars, tr_vars, am_vars, rl_vars, nm_vars, pe_vars, da_vars>>

\* compatible(pn, npn) called on every pair of PersonName tuples
SpecCompat == InitCompat /\ [][NextCompat]_vars

InitNames ==
    nm_Init /\ ps_Idle /\ rn_Idle /\ pd_Idle /\ pp_Idle /\ pt_Idle /\ p1_Idle /\ sp_Idle /\ re_Idle /\ sc_Idle /\ tr_Idle /\ am_Idle /\ rl_Idle /\ cp_Idle /\ pe_Idle /\ da_Idle

NextNames ==
    \/ nm_Annotate /\ UNCHANGED <<ps_vars, rn_vars, pd_vars, pp_vars, pt_vars, p1_vars, sp_vars, re_vars, sc_vars, tr_vars, am_vars, rl_vars, cp_vars, pe_vars, da_vars>>
    \/ nm_AnnotateEnd /\ UNCHANGED <<ps_vars, rn_vars, pd_vars, pp_vars, pt_vars, p1_vars, sp_vars, re_vars, sc_vars, tr_vars, am_vars, rl_vars, cp_vars, pe_vars, da_vars>>
    \/ nm_Start /\ UNCHANGED <<ps_vars, rn_vars, pd_vars, pp_vars, pt_vars, p1_vars, sp_vars, re_vars, sc_vars, tr_vars, am_vars, rl_vars, cp_vars, pe_vars, da_vars>>
    \/ nm_Final /\ UNCHANGED <<ps_vars, rn_vars, pd_vars, pp_vars, pt_vars, p1_vars, sp_vars, re_vars, sc_vars, tr_vars, am_vars, rl_vars, cp_vars, pe_vars, da_vars>>
    \/ nm_Other /\ UNCHANGED <<ps_vars, rn_vars, pd_vars, pp_vars, pt_vars, p1_vars, sp_vars, re_vars, sc_vars, tr_vars, am_vars, rl_vars, cp_vars, pe_vars, da_vars>>
    \/ nm_Name /\ UNCHANGED <<ps_vars, rn_vars, pd_vars, pp_vars, pt_vars, p1_vars, sp_vars, re_vars, sc_vars, tr_vars, am_vars, rl_vars, cp_vars, pe_vars, da_vars>>

\* annotate and parse_phrases_2 on the tokens of sentences with person names
SpecNames == InitNames /\ [][NextNames]_vars

InitErrors ==
    pe_Init /\ ps_Idle /\ rn_Idle /\ pd_Idle /\ pp_Idle /\ pt_Idle /\ p1_Idle /\ sp_Idle /\ re_Idle /\ sc_Idle /\ tr_Idle /\ am_Idle /\ rl_Idle /\ cp_Idle /\ nm_Idle /\ da_Idle

NextErrors ==
    \/ pe_Call /\ UNCHANGED <<ps_vars, rn_vars, pd_vars, pp_vars, pt_vars, p1_vars, sp_vars, re_vars, sc_vars, tr_vars, am_vars, rl_vars, cp_vars, nm_vars, da_vars>>
    \/ pe_Annotate /\ UNCHANGED <<ps_vars, rn_vars, pd_vars, pp_vars, pt_vars, p1_vars, sp_vars, re_vars, sc_vars, tr_vars, am_vars, rl_vars, cp_vars, nm_vars, da_vars>>

\* parse_errors_1 on sentences with repeated words, and the stages up to
\* annotate on what it yields
SpecErrors == InitErrors /\ [][NextErrors]_vars

InitAmbig ==
    da_Init /\ ps_Idle /\ rn_Idle /\ pd_Idle /\ pp_Idle /\ pt_Idle /\ p1_Idle /\ sp_Idle /\ re_Idle /\ sc_Idle /\ tr_Idle /\ am_Idle /\ rl_Idle /\ cp_Idle /\ nm_Idle /\ pe_Idle

NextAmbig ==
    \/ da_NotWord /\ UNCHANGED <<ps_vars, rn_vars, pd_vars, pp_vars, pt_vars, p1_vars, sp_vars, re_vars, sc_vars, tr_vars, am_vars, rl_vars, cp_vars, nm_vars, pe_vars>>
    \/ da_Expected /\ UNCHANGED <<ps_vars, rn_vars, pd_vars, pp_vars, pt_vars, p1_vars, sp_vars, re_vars, sc_vars, tr_vars, am_vars, rl_vars, cp_vars, nm_vars, pe_vars>>
    \/ da_Unexpected /\ UNCHANGED <<ps_vars, rn_vars, pd_vars, pp_vars, pt_vars, p1_vars, sp_vars, re_vars, sc_vars, tr_vars, am_vars, rl_vars, cp_vars, nm_vars, pe_vars>>
    \/ da_Final /\ UNCHANGED <<ps_vars, rn_vars, pd_vars, pp_vars, pt_vars, p1_vars, sp_vars, re_vars, sc_vars, tr_vars, am_vars, rl_vars, cp_vars, nm_vars, pe_vars>>

\* disambiguate_phrases on words that begin and continue ambiguous phrases
SpecAmbig == InitAmbig /\ [][NextAmbig]_vars

(***************************************************************************)
(* Claims about parse_sentences                                            *)
(***************************************************************************)
IsParagraphMarker(t) == t.kind \in {"P_BEGIN", "P_END"}

\* s, read from a point where a sentence is open iff 'open', pairs every
\* S_BEGIN with one S_END, never nests them, keeps every token that is not a
\* delimiter inside a pair, and ends with no sentence open
RECURSIVE SentencesMatched(_, _)
SentencesMatched(s, open) ==
    IF s = <<>> THEN ~open
    ELSE CASE Head(s).kind = "S_BEGIN" -> ~open /\ SentencesMatched(Tail(s), TRUE)
           [] Head(s).kind = "S_END" -> open /\ SentencesMatched(Tail(s), FALSE)
           [] IsParagraphMarker(Head(s)) -> SentencesMatched(Tail(s), open)
           [] OTHER -> open /\ SentencesMatched(Tail(s), open)

\* position i of s lies between an S_BEGIN and the S_END that closes it
InsideSentence(s, i) ==
    \E j \in 1..(i - 1), k \in (i + 1)..Len(s) :
        /\ s[j].kind = "S_BEGIN"
        /\ s[k].kind = "S_END"
        /\ \A m \in (j + 1)..(k - 1) : s[m].kind \notin {"S_BEGIN", "S_END"}

\* C1: when parse_sentences has finished, its output holds S_BEGIN and S_END
\* in matched, non-nested pairs, every token that is not a delimiter lies
\* inside a pair, and a sentence open at the end of the input is closed.
C1_SentencesWellFormed == ps_pc = "done" => SentencesMatched(ps_out, FALSE)

\* C2: when parse_sentences has finished, no P_BEGIN or P_END of its output
\* lies between an S_BEGIN and its matching S_END, and no P_BEGIN is
\* immediately followed by a P_END.
C2_ParagraphMarkersOutside ==
    ps_pc = "done" =>
        /\ \A i \in 1..Len(ps_out) :
              IsParagraphMarker(ps_out[i]) => ~InsideSentence(ps_out, i)
        /\ \A i \in 1..(Len(ps_out) - 1) :
              ~(ps_out[i].kind = "P_BEGIN" /\ ps_out[i + 1].kind = "P_END")

(***************************************************************************)
(* Claims about parse_particles                                            *)
(***************************************************************************)
\* the positions of the input that the tokens of out were made from, in order
Sources(out) == Flatten([i \in 1..Len(out) |-> out[i].src])

\* C3: when parse_particles has finished, the tokens it emitted account for
\* every input token exactly once and in input order: the positions the
\* emitted tokens were made from, read in output order, are 1, 2, ..., n.
C3_EveryTokenAccounted ==
    pp_pc = "done" => Sources(pp_out) = [i \in 1..Len(pp_input) |-> i]

\* the sequences a and b hold the same items the same number of times
SameBag(a, b) ==
    /\ Len(a) = Len(b)
    /\ \A i \in 1..Len(a) :
          Cardinality({k \in 1..Len(a) : a[k] = a[i]})
              = Cardinality({k \in 1..Len(b) : b[k] = a[i]})

\* the error codes held by an error field, whatever its nesting
RECURSIVE Codes(_)
Codes(v) ==
    IF v.t \in {"list", "tuple"} THEN Flatten([k \in 1..Len(v.l) |-> Codes(v.l[k])])
    ELSE IF v.t = "None" THEN <<>>
    ELSE <<v>>

\* the error codes of the input tokens at the positions src
ErrorsOf(input, src) == Flatten([k \in 1..Len(src) |-> input[src[k]].error.l])

\* C4: the error list of every token emitted by parse_particles is the
\* multiset union of the error lists of the input tokens it was made from:
\* a fused token loses and repeats nothing, and a token that was not fused
\* carries its own errors only.
C4_ErrorMonotonicity ==
    \A i \in 1..Len(pp_out) :
        SameBag(Codes(pp_out[i].error), ErrorsOf(pp_input, pp_out[i].src))

\* C5: the error field of every token emitted by parse_particles is a flat
\* list of integers.
C5_ErrorIsFlatList == \A i \in 1..Len(pp_out) : IsFlatIntList(pp_out[i].error)

(***************************************************************************)
(* Claims about the dates of parse_phrases_1                               *)
(***************************************************************************)
\* the (y, m, d) at the front of val are three ints that is_valid_date accepts
DateValid(val) ==
    /\ \A i \in 1..3 : val.l[i].t = "int"
    /\ is_valid_date(val.l[1].n, val.l[2].n, val.l[3].n)

\* C7: every DATEABS and every TIMESTAMPABS that parse_phrases_1 yields
\* carries a valid date: 1776 <= y <= 2100, 1 <= m <= 12, 1 <= d <= 31 and
\* (y, m, d) is a day of the calendar.
C7_AbsoluteDatesValid ==
    \A i \in 1..Len(p1_out) :
        p1_out[i].kind \in {"DATEABS", "TIMESTAMPABS"} => DateValid(p1_out[i].val)

\* v is the number zero
IsZero(v) == v.t \in {"int", "float"} /\ v.n = 0

\* no DATE among the tokens; absolute dates have no zero, relative ones have
DatesSplit(tokens) ==
    \A i \in 1..Len(tokens) :
        /\ tokens[i].kind # "DATE"
        /\ tokens[i].kind \in {"DATEABS", "TIMESTAMPABS"} =>
               \A j \in 1..3 : Truthy(tokens[i].val.l[j])
        /\ tokens[i].kind \in {"DATEREL", "TIMESTAMPREL"} =>
               \E j \in 1..3 : IsZero(tokens[i].val.l[j])

\* C8: no token of kind DATE is yielded by parse_phrases_1, nor left after the
\* time stamps of parse_phrases_2; the y, m and d of every DATEABS and
\* TIMESTAMPABS are all non-zero, and every DATEREL and TIMESTAMPREL has a
\* zero among its y, m and d.
C8_NoDateLeft == DatesSplit(p1_out) /\ DatesSplit(p2_out)

\* C8 witness: the last token handed to parse_sentences was a DATE, the
\* generator has finished, a DATE was made a DATEABS and another a DATEREL,
\* and a TIME and a DATEREL were made a TIMESTAMPREL
C8_Witness ==
    /\ p1_pc = "done"
    /\ ps_input # <<>>
    /\ Last(ps_input).kind = "DATE"
    /\ \E i \in 1..Len(p1_out) : p1_out[i].kind = "DATEABS"
    /\ \E i \in 1..Len(p1_out) : p1_out[i].kind = "DATEREL"
    /\ \E i \in 1..Len(p2_out) : p2_out[i].kind = "TIMESTAMPREL"

(***************************************************************************)
(* Claims about parse_tokens                                               *)
(***************************************************************************)
\* C6: parse_tokens raises no exception, whatever the text.
C6_NeverRaises == pt_pc # "raised"

(***************************************************************************)
(* Claims about roman_to_int                                               *)
(***************************************************************************)
\* C9: the canonical Roman numeral of every n in 1..MaxRomanValue matches
\* RE_ROMAN_NUMERAL and roman_to_int of it returns n; and for every non-empty
\* string that matches RE_ROMAN_NUMERAL the assertion i == len(s) of
\* roman_to_int holds, so the call returns.
C9_RomanRoundTrip ==
    rn_pc \in {"returned", "raised"} =>
        /\ rn_n > 0 =>
              /\ ReMatch(RE_ROMAN_NUMERAL, rn_s) >= 0
              /\ rn_pc = "returned"
              /\ rn_ret.result = rn_n
        /\ (rn_s # <<>> /\ ReMatch(RE_ROMAN_NUMERAL, rn_s) >= 0) => rn_pc = "returned"

\* C9 witness: roman_to_int has returned 1994 for MCMXCIV
C9_Witness ==
    /\ rn_pc = "returned"
    /\ rn_n = 1994
    /\ rn_s = <<"M", "C", "M", "X", "C", "I", "V">>
    /\ rn_ret.result = 1994

(***************************************************************************)
(* Claims about parse_digits                                               *)
(***************************************************************************)
\* C10: when parse_digits returned a NUMBER token, parse_digits of the text
\* of that token returns a NUMBER token with the same value.
C10_NumberRoundTrip ==
    (pd_pc = "reparsed" /\ pd_ret.tok.kind = "NUMBER") =>
        /\ pd_again.tok.kind = "NUMBER"
        /\ pd_again.tok.val.l[1] = pd_ret.tok.val.l[1]

\* C10 witness: a number with a decimal point, whose text was rewritten with
\* a decimal comma, has been parsed again
C10_Witness ==
    /\ pd_pc = "reparsed"
    /\ pd_w = <<"1", "9", ".", "9">>
    /\ pd_ret.tok.kind = "NUMBER"
    /\ pd_ret.tok.txt = <<"1", "9", ",", "9">>
    /\ pd_again.tok.val.l[1] = PyFloat(199, 10)

(***************************************************************************)
(* Claims about parse_static_phrases                                       *)
(***************************************************************************)
\* the tokens i, i+1 and i+2 of the input spell out 'til daemis um'
SpellsLongPhrase(input, i) ==
    /\ i + 2 <= Len(input)
    /\ Lower(input[i].txt) = <<"t", "i", "l">>
    /\ input[i + 1].txt = <<"d", "aelig", "m", "i", "s">>
    /\ input[i + 2].txt = <<"u", "m">>

\* C11: when the input spells out the longer of two phrases of which one is a
\* prefix of the other, parse_static_phrases yields one WORD that covers the
\* longer phrase, whatever the order in which the phrases are stored.
C11_LongestMatch ==
    sp_pc = "done" =>
        \A i \in 1..Len(sp_input) :
            SpellsLongPhrase(sp_input, i) =>
                \E j \in 1..Len(sp_out) :
                    /\ sp_out[j].kind = "WORD"
                    /\ Lower(sp_out[j].txt) = StaticPhrases_text(1)

(***************************************************************************)
(* Claims about recognize_entities                                         *)
(***************************************************************************)
\* the first k tokens of input are words that spell out an entity name
SpellsEntity(input, k) ==
    /\ k <= Len(input)
    /\ \A i \in 1..k : input[i].kind = "WORD"
    /\ \E n \in 1..Len(EntityNames) :
           EntityNames[n] = Join([i \in 1..k |-> input[i].txt])

C14_QueriedOnce ==
    \A i, j \in 1..Len(re_queries) : re_queries[i] = re_queries[j] => i = j

\* C14 witness: the word 'Music', for which the table has no rows, came twice
\* and the run is over
C14_Witness ==
    /\ re_pc = "done"
    /\ \E i, j \in 1..Len(re_input) :
           /\ i < j
           /\ re_input[i].txt = <<"M", "u", "s", "i", "c">>
           /\ re_input[j].txt = <<"M", "u", "s", "i", "c">>
    /\ \E i \in 1..Len(re_queries) : re_queries[i] = <<"M", "u", "s", "i", "c">>
    /\ fetch_entities(<<"M", "u", "s", "i", "c">>) = <<>>

(***************************************************************************)
(* Claims about SessionContext                                             *)
(***************************************************************************)
\* the calls the context made on the session
ContextCalls == SelectSeq(sc_log, LAMBDA c : c.by = "context")

\* C15: a session supplied by the caller is never committed, rolled back or
\* closed by the context: the context makes no call on it and after the exit
\* the session is as the body left it, whatever the commit argument.
C15_SuppliedSessionUntouched ==
    sc_call.supplied =>
        /\ ContextCalls = <<>>
        /\ sc_pc = "left" => sc_log = sc_body_log

\* C15 witness: a with statement over a supplied session, commit requested,
\* has been left after its body used the session and raised
C15_Witness ==
    /\ sc_pc = "left"
    /\ sc_call.supplied
    /\ sc_call.commit
    /\ sc_body_exc # ""
    /\ sc_log # <<>>

\* C16: after the exit, a session the context created has been closed as the
\* last call; when commit was requested the context committed once and did
\* not roll back if the body raised nothing, rolled back and did not commit
\* if the body raised, both before the close; the exception of the body is
\* raised again.
C16_InternalSessionClosed ==
    sc_pc = "left" /\ ~sc_call.supplied =>
        /\ ContextCalls # <<>>
        /\ Last(ContextCalls).op = "close"
        /\ ContextCalls =
               (IF sc_call.commit
                THEN (IF sc_body_exc = "" THEN << [by |-> "context", op |-> "commit"] >>
                      ELSE << [by |-> "context", op |-> "rollback"] >>)
                ELSE <<>>) \o << [by |-> "context", op |-> "close"] >>
        /\ sc_exc = sc_body_exc

\* C17: the constructor accepts the arguments that recognize_entities passes
\* when no enclosing session is given: the call does not raise.
C17_EntitySessionAcquired ==
    sc_call.caller = "recognize_entities" /\ ~sc_call.supplied => sc_pc # "failed"

(***************************************************************************)
(* Claims about test and test_2                                            *)
(***************************************************************************)
\* C19: raw_tokenize yields exactly the tokens of parse_errors_1 and tokenize
\* yields exactly the tokens of disambiguate_phrases: test and test_2 yield
\* every token they receive once, in order.
C19_RelaysAddNothing ==
    /\ "raw" \in tr_pc => tr_raw = parse_errors_1(tr_input)
    /\ "tok" \in tr_pc => tr_tok = tr_input

(***************************************************************************)
(* Claims about the scenarios of tokenize()                                *)
(***************************************************************************)
\* the AMOUNT token of scenario 3: the text "1.234,56 kr.", the value 1234.56
\* and the currency ISK
IsScenario3Amount(t) ==
    /\ t.kind = "AMOUNT"
    /\ t.txt = <<"1", ".", "2", "3", "4", ",", "5", "6", " ", "k", "r", ".">>
    /\ t.val.l[1] = PyFloat(123456, 100)
    /\ t.val.l[2] = PyStr(<<"I", "S", "K">>)

\* C20: for the text "Kostnadur var 1.234,56 kr." of scenario 3 (written
\* with eth in the module), tokenize() emits one AMOUNT token, and it has the
\* text "1.234,56 kr." with the period of the abbreviation, the currency ISK
\* and the value 1234.56
C20_Scenario3Amount ==
    (pt_txt = Scenario3 /\ am_pc = "done") =>
        /\ Cardinality({ i \in DOMAIN am_out : am_out[i].kind = "AMOUNT" }) = 1
        /\ \E i \in DOMAIN am_out : IsScenario3Amount(am_out[i])

(***************************************************************************)
(* Claims about the release of resources                                   *)
(***************************************************************************)
\* the releases of a log come in the reverse of the order of the
\* acquisitions: a handle is released only after every handle acquired after
\* it has been released
ReverseOrder(log) ==
    \A i, j, r \in DOMAIN log :
        (/\ log[i].op = "acquire"
         /\ log[j].op = "acquire"
         /\ i < j
         /\ j < r
         /\ log[r] = Release(log[i].stage, log[i].res))
        => \E q \in DOMAIN log : q < r /\ log[q] = Release(log[j].stage, log[j].res)

\* C18: on every exit path of the pipeline (exhaustion, an exception of a
\* stage, of its upstream or of its downstream, abandonment by the consumer)
\* the handles acquired by the stages are released in the reverse of the
\* order in which they were acquired
C18_ReleasedInReverseOrder == ReverseOrder(rl_log)

(***************************************************************************)
(* Claims about the payload of the tokens of parse_particles               *)
(***************************************************************************)
\* the payload declared for the kind of t: a YEAR carries an integer, a
\* MEASUREMENT carries (unit class, number)
PayloadShape(t) ==
    /\ t.kind = "YEAR" => t.val.t = "int"
    /\ t.kind = "MEASUREMENT" =>
           /\ t.val.t = "tuple"
           /\ Len(t.val.l) = 2
           /\ t.val.l[1].t = "str"
           /\ t.val.l[2].t \in {"int", "float"}

\* C21: every YEAR token that parse_particles yields carries an integer and
\* every MEASUREMENT token carries the unit class and the numeric value of
\* the NUMBER
C21_PayloadShape == \A i \in DOMAIN pp_out : PayloadShape(pp_out[i])

(***************************************************************************)
(* Claims about the person names of parse_phrases_2                        *)
(***************************************************************************)
\* a and b are equal, or at least one of the two is unspecified
EqualOrUnspecified(a, b) == a = b \/ a = PyNone \/ b = PyNone

HasCandidate(e) ==
    /\ e.head.kind = "WORD"
    /\ ~(Truthy(e.head.val) /\ Fl(e.head.val.l[1]) = <<"n", "a", "f", "n">>)
    /\ given_names(e.head, e.flag) # <<>>

\* the six conditions of a weak name
IsWeak(e) ==
    /\ e.flag
    /\ e.used = 1
    /\ ~e.patronym
    /\ ~e.found_name
    /\ \E i \in 1..Len(e.head.val.l) : Fl(e.head.val.l[i]) # <<"i", "s", "m">>
    /\ e.head.txt \notin NamePreferences_SET

\* C23: a WORD with at least one given-name candidate is emitted as PERSON
\* unless it is weak: at_sentence_start is set, the accumulated name is a
\* single token, no patronym or surname was found, no previously seen full
\* name matched, the word has a meaning other than 'ism' and the word is not
\* in the name preferences; a weak word is emitted unchanged
C23_WeakNameBackoff ==
    \A i \in DOMAIN nm_log :
        HasCandidate(nm_log[i]) =>
            /\ nm_log[i].emitted.kind = "PERSON" <=> ~IsWeak(nm_log[i])
            /\ IsWeak(nm_log[i]) => nm_log[i].emitted = nm_log[i].head

\* C23 witness: a weak name was left a WORD, and a single given name at the
\* start of a sentence that is not weak was emitted as PERSON
C23_Witness ==
    /\ \E i \in DOMAIN nm_log : HasCandidate(nm_log[i]) /\ IsWeak(nm_log[i])
    /\ \E i \in DOMAIN nm_log :
          /\ HasCandidate(nm_log[i])
          /\ nm_log[i].flag
          /\ nm_log[i].used = 1
          /\ nm_log[i].emitted.kind = "PERSON"

\* going back over the tokens emitted, past the PUNCTUATION tokens other than
\* ':' and the ORDINAL tokens: the first token found is S_BEGIN or ':'
RECURSIVE AtSentenceStart(_)
AtSentenceStart(emitted) ==
    IF emitted = <<>> THEN FALSE
    ELSE IF \/ Last(emitted).kind = "S_BEGIN"
            \/ (Last(emitted).kind = "PUNCTUATION" /\ Last(emitted).txt = <<":">>)
    THEN TRUE
    ELSE IF Last(emitted).kind \in {"PUNCTUATION", "ORDINAL"}
    THEN AtSentenceStart(SubSeq(emitted, 1, Len(emitted) - 1))
    ELSE FALSE

\* C24: in annotate and in parse_phrases_2, whenever the loop is about to take
\* its next token, at_sentence_start is true iff, going back over the tokens
\* already emitted and skipping PUNCTUATION other than ':' and ORDINAL, the
\* first token found is S_BEGIN or ':'; it is false initially
C24_AtSentenceStart ==
    /\ nm_pc = "annotate" => (nm_ann_flag <=> AtSentenceStart(nm_ann))
    /\ nm_pc = "loop" => (nm_flag <=> AtSentenceStart(nm_out))

\* C24 witness: parse_phrases_2 has the flag set after an ORDINAL and a comma
\* that follow a colon
C24_Witness ==
    /\ nm_pc = "loop"
    /\ nm_flag
    /\ Len(nm_out) >= 3
    /\ nm_out[Len(nm_out)].kind = "PUNCTUATION"
    /\ nm_out[Len(nm_out)].txt # <<":">>
    /\ nm_out[Len(nm_out) - 1].kind = "ORDINAL"
    /\ nm_out[Len(nm_out) - 2].txt = <<":">>

(***************************************************************************)
(* Claims about parse_errors_1                                             *)
(***************************************************************************)
\* the token t repeats the word before it
Repeats(t, before) ==
    /\ t.kind = "WORD"
    /\ before.kind = "WORD"
    /\ t.txt = before.txt
    /\ t.txt \notin ALLOWED_MULTIPLES

\* the stream with every run of a repeated word reduced to its first token;
\* merged tells whether the token stands for a run of two or more
RECURSIVE Collapsed(_)
Collapsed(stream) ==
    IF stream = <<>> THEN <<>>
    ELSE IF Len(stream) >= 2 /\ Repeats(stream[2], stream[1])
    THEN <<[kind |-> "WORD", txt |-> stream[1].txt, merged |-> TRUE]>>
         \o Tail(Collapsed(Tail(stream)))
    ELSE <<[kind |-> stream[1].kind, txt |-> stream[1].txt, merged |-> FALSE]>>
         \o Collapsed(Tail(stream))

\* C25: every run of k >= 2 adjacent WORD tokens with the same text, not in
\* ALLOWED_MULTIPLES, comes out as exactly one WORD with that text whose error
\* list contains 2, for every k; the other tokens come out as they are
C25_RunsCollapsed ==
    pe_pc = "done" =>
        /\ Len(pe_out) = Len(Collapsed(pe_input))
        /\ \A i \in 1..Len(pe_out) :
              i <= Len(Collapsed(pe_input)) =>
                 /\ pe_out[i].kind = Collapsed(pe_input)[i].kind
                 /\ pe_out[i].txt = Collapsed(pe_input)[i].txt
                 /\ Collapsed(pe_input)[i].merged =>
                       \E j \in 1..Len(pe_out[i].error.l) : pe_out[i].error.l[j] = PyInt(2)

(***************************************************************************)
(* Claims about the ordinals and abbreviations of parse_particles          *)
(***************************************************************************)
\* the token of the input is a whole NUMBER or a Roman-numeral WORD
OrdinalBase(t) ==
    \/ t.kind = "NUMBER" /\ ~(HasChar(t.txt, ".") \/ HasChar(t.txt, ","))
    \/ t.kind = "WORD" /\ ReMatch(RE_ROMAN_NUMERAL, t.txt) >= 0

\* the token of the input is taken together with a number that follows it
\* ('$', a year word, the clock words), or is itself a number before a period
TakesNumber(t) ==
    \/ t.kind = "PUNCTUATION" /\ t.txt \in { <<"$">>, <<"euro">> }
    \/ t.kind = "WORD" /\ (t.txt \in {ARID, ARSINS, ARINU} \/ Lower(t.txt) \in {CLOCK_ABBREV, CLOCK_WORD})

\* the token after the period makes the period the end of a sentence
OrdinalFallback(t) ==
    \/ t.kind \in {"S_END", "P_END"}
    \/ t.kind = "PUNCTUATION" /\ t.txt \in { <<"bdquo">>, <<"\"">> }
    \/ t.kind = "WORD" /\ IsUpperChar(t.txt[1]) /\ ~InMonths(Lower(t.txt))

\* position i of the input holds a number or Roman numeral that reaches the
\* ordinal check as the current token with the period as its lookahead
OrdinalAt(input, i) ==
    /\ i + 1 <= Len(input)
    /\ OrdinalBase(input[i])
    /\ IsPunct(input[i + 1], ".")
    /\ i > 1 => ~TakesNumber(input[i - 1])
    /\ i > 2 => ~(IsPunct(input[i - 1], ".") /\ Lower(input[i - 2].txt) = CLOCK_ABBREV)

\* C26: a whole NUMBER or Roman-numeral WORD followed by '.' is emitted as one
\* ORDINAL (text + '.', value the number or roman_to_int of the text) unless
\* the token after the '.' is a sentence or paragraph end, an opening quote or
\* an uppercase WORD that is no month name; then the number and the '.' are
\* emitted as two tokens, in order, followed by the lookahead
C26_OrdinalOrSplit ==
    pp_pc = "done" =>
        \A i \in 1..Len(pp_input) :
            OrdinalAt(pp_input, i) =>
                IF i + 2 <= Len(pp_input) /\ OrdinalFallback(pp_input[i + 2])
                THEN \E k \in 1..(Len(pp_out) - 2) :
                        /\ pp_out[k] = pp_input[i]
                        /\ pp_out[k + 1] = pp_input[i + 1]
                        /\ pp_out[k + 2].src[1] = i + 2
                ELSE \E k \in 1..Len(pp_out) :
                        /\ pp_out[k].kind = "ORDINAL"
                        /\ pp_out[k].src = <<i, i + 1>>
                        /\ pp_out[k].txt = pp_input[i].txt \o <<".">>
                        /\ pp_out[k].val = IF pp_input[i].kind = "NUMBER"
                                           THEN pp_input[i].val.l[1]
                                           ELSE PyInt(roman_to_int(pp_input[i].txt).result)

\* position i of the input holds an abbreviation that takes a period, is
\* followed by one and reaches the abbreviation check as the current token;
\* 'kl' is left to the clock phrases
AbbrevAt(input, i) ==
    /\ i + 1 <= Len(input)
    /\ input[i].kind = "WORD"
    /\ Last(input[i].txt) # "."
    /\ is_abbr_with_period(input[i].txt)
    /\ Lower(input[i].txt) # CLOCK_ABBREV
    /\ IsPunct(input[i + 1], ".")
    /\ i > 1 => input[i - 1].kind \notin {"NUMBER", "YEAR"}

\* the token after the period indicates a possible end of the sentence
FinishAfter(t) ==
    \/ t.kind \in {"S_END", "P_END"}
    \/ t.kind \in {"WORD", "ENTITY"} /\ IsUpperChar(t.txt[1]) /\ ~InMonths(Lower(t.txt))

\* the token after the period comes at position j of the output, and nowhere
\* else
FollowNext(input, i, out, j) ==
    i + 2 <= Len(input) =>
        /\ j <= Len(out)
        /\ out[j].src[1] = i + 2
        /\ \A m \in 1..Len(out) : (\E n \in 1..Len(out[m].src) : out[m].src[n] = i + 2) => m = j

\* C27: an abbreviation that takes a period and is followed by '.': before a
\* possible sentence end a FINISHERS abbreviation is emitted as WORD '[txt]'
\* and then the '.', a NOT_FINISHERS one unchanged and then the '.', any other
\* as WORD '[txt.]' with the period consumed; elsewhere it is always emitted
\* as '[txt.]'; the token after the period is emitted next and exactly once
C27_AbbreviationPeriod ==
    pp_pc = "done" =>
        \A i \in 1..Len(pp_input) :
            AbbrevAt(pp_input, i) =>
                IF /\ i + 2 <= Len(pp_input)
                   /\ FinishAfter(pp_input[i + 2])
                   /\ pp_input[i].txt \o <<".">> \in Abbreviations_FINISHERS
                THEN \E k \in 1..(Len(pp_out) - 1) :
                        /\ pp_out[k].kind = "WORD"
                        /\ pp_out[k].txt = <<"[">> \o pp_input[i].txt \o <<"]">>
                        /\ pp_out[k].src = <<i>>
                        /\ pp_out[k + 1] = pp_input[i + 1]
                        /\ FollowNext(pp_input, i, pp_out, k + 2)
                ELSE IF /\ i + 2 <= Len(pp_input)
                        /\ FinishAfter(pp_input[i + 2])
                        /\ pp_input[i].txt \o <<".">> \in Abbreviations_NOT_FINISHERS
                THEN \E k \in 1..(Len(pp_out) - 1) :
                        /\ pp_out[k] = pp_input[i]
                        /\ pp_out[k + 1] = pp_input[i + 1]
                        /\ FollowNext(pp_input, i, pp_out, k + 2)
                ELSE \E k \in 1..Len(pp_out) :
                        /\ pp_out[k].kind = "WORD"
                        /\ pp_out[k].txt = <<"[">> \o pp_input[i].txt \o <<".", "]">>
                        /\ pp_out[k].src = <<i, i + 1>>
                        /\ FollowNext(pp_input, i, pp_out, k + 1)

(***************************************************************************)
(* Claims about the dates and numbers of parse_phrases_1                   *)
(***************************************************************************)
\* the token can be the day of a month: an ORDINAL, a NUMBER or a day word
DayFirst(t) == t.kind \in {"ORDINAL", "NUMBER"} \/ InTable(DAYS_OF_MONTH, t.txt)

\* the value of the ordinal, of the number or of the day word
ExpectedDay(t) ==
    IF t.kind = "ORDINAL" THEN t.val
    ELSE IF t.kind = "NUMBER" THEN t.val.l[1]
    ELSE TableValue(DAYS_OF_MONTH, t.txt)

\* the token is a WORD that names a month
IsMonthWord(t) == t.kind = "WORD" /\ match_stem_list(t, MonthStems, NoFilter) # PyNone

\* the stream begins a sentence with a day and a month name
DayMonthSentence(input) ==
    /\ Len(input) >= 4
    /\ input[1].kind = "S_BEGIN"
    /\ DayFirst(input[2])
    /\ IsMonthWord(input[3])

\* C28: an ORDINAL, a NUMBER or a day-of-month WORD followed by a month name is
\* fused into one date with y = 0, m the number of the month and d the value
\* of the ordinal, of the number or of the day word; the pass raises no
\* exception for any of the three kinds of first token.  The date is looked
\* at where no year and no time follows it, which later rules add to it.
C28_DayMonthFused ==
    DayMonthSentence(p1_input) =>
        /\ ~(p1_pc = "raised" /\ Len(p1_out) = 1)
        /\ (Len(p1_out) >= 2 /\ p1_input[4].kind \notin {"NUMBER", "YEAR", "TIME"}) =>
              /\ p1_out[2].kind \in {"DATE", "DATEREL"}
              /\ p1_out[2].txt = p1_input[2].txt \o <<" ">> \o p1_input[3].txt
              /\ p1_out[2].val = PyTuple(<<PyInt(0),
                                          match_stem_list(p1_input[3], MonthStems, NoFilter),
                                          ExpectedDay(p1_input[2])>>)
\* the stream begins a sentence with a date without a year, or a month name,
\* and a NUMBER
DateNumberSentence(input) ==
    /\ Len(input) >= 4
    /\ input[1].kind = "S_BEGIN"
    /\ \/ input[2].kind = "DATE" /\ ~Truthy(input[2].val.l[1])
       \/ IsMonthWord(input[2])
    /\ input[3].kind = "NUMBER"

\* the text of the number denotes an integer in 1776..2100
YearText(t) == IsDigits(t.txt) /\ 1776 <= StrToInt(t.txt) /\ StrToInt(t.txt) <= 2100

\* C29: a DATE with y = 0, and likewise a month name, followed by a NUMBER
\* takes the number as its year only when the number's text denotes an integer
\* in 1776..2100; otherwise the NUMBER is not consumed and stays a separate
\* token after the date, and no exception is raised whatever the text
C29_YearOnlyInRange ==
    DateNumberSentence(p1_input) =>
        /\ ~(p1_pc = "raised" /\ Len(p1_out) = 1)
        /\ Len(p1_out) >= 2 =>
              IF YearText(p1_input[3])
              THEN /\ p1_out[2].val.l[1] = PyInt(StrToInt(p1_input[3].txt))
                   /\ p1_out[2].txt = p1_input[2].txt \o <<" ">> \o p1_input[3].txt
              ELSE /\ p1_out[2].kind \in {"DATE", "DATEREL"}
                   /\ p1_out[2].txt = p1_input[2].txt
                   /\ p1_out[2].val.l[1] = PyInt(0)
                   /\ Len(p1_out) >= 3 => StartsWith(p1_out[3].txt, p1_input[3].txt)

\* the multiplier words that follow position 2 of the stream without a break
RECURSIVE ChainEnd(_, _)
ChainEnd(input, i) ==
    IF i + 1 <= Len(input) /\ input[i + 1].kind = "WORD" /\ number(input[i + 1]) # PyNone
    THEN ChainEnd(input, i + 1)
    ELSE i

\* the stream begins a sentence with a NUMBER or a multiplier word, one or
\* more multiplier words, and a token that is no WORD
MultiplierSentence(input) ==
    /\ Len(input) >= 4
    /\ input[1].kind = "S_BEGIN"
    /\ \/ input[2].kind = "NUMBER"
       \/ input[2].kind = "WORD" /\ number(input[2]) # PyNone
    /\ ChainEnd(input, 2) >= 3
    /\ ChainEnd(input, 2) < Len(input)
    /\ input[ChainEnd(input, 2) + 1].kind # "WORD"

\* the number, the text, the cases and the genders after the tokens 2..i of
\* the chain: those of the last multiplier, and those of what precedes it
\* when the multiplier is possessive and what precedes it has cases
RECURSIVE ChainNumber(_, _)
ChainNumber(input, i) ==
    IF i = 2
    THEN [val |-> IF input[2].kind = "NUMBER" THEN input[2].val.l[1] ELSE number(input[2]),
          txt |-> input[2].txt,
          cases |-> IF input[2].kind = "NUMBER" THEN input[2].val.l[2]
                    ELSE all_cases(input[2]),
          genders |-> IF input[2].kind = "NUMBER" THEN input[2].val.l[3]
                      ELSE all_genders(input[2])]
    ELSE [val |-> PyMul(ChainNumber(input, i - 1).val, number(input[i])),
          txt |-> ChainNumber(input, i - 1).txt \o <<" ">> \o input[i].txt,
          cases |-> IF HasEf(all_cases(input[i])) /\ Truthy(ChainNumber(input, i - 1).cases)
                    THEN ChainNumber(input, i - 1).cases
                    ELSE all_cases(input[i]),
          genders |-> IF HasEf(all_cases(input[i])) /\ Truthy(ChainNumber(input, i - 1).cases)
                      THEN ChainNumber(input, i - 1).genders
                      ELSE all_genders(input[i])]

\* C30: a NUMBER or multiplier WORD followed by one or more multiplier WORDs is
\* fused into one NUMBER whose value is the product of the first value and
\* every multiplier and whose text is the space-joined texts; its cases and
\* genders are those of the last multiplier, except that when that
\* multiplier's cases include 'ef' and the preceding token has cases, the
\* preceding token's cases and genders are kept
C30_MultiplierChain ==
    (MultiplierSentence(p1_input) /\ Len(p1_out) >= 2) =>
        /\ p1_out[2].kind = "NUMBER"
        /\ p1_out[2].txt = ChainNumber(p1_input, ChainEnd(p1_input, 2)).txt
        /\ p1_out[2].val = PyTuple(<<ChainNumber(p1_input, ChainEnd(p1_input, 2)).val,
                                    ChainNumber(p1_input, ChainEnd(p1_input, 2)).cases,
                                    ChainNumber(p1_input, ChainEnd(p1_input, 2)).genders>>)


(***************************************************************************)
(* Claims about the composites of parse_phrases_1                          *)
(***************************************************************************)
\* the stream begins a sentence with a WORD and a composite hyphen
CompositeSentence(input) ==
    /\ Len(input) >= 4
    /\ input[1].kind = "S_BEGIN"
    /\ input[2].kind = "WORD"
    /\ input[3].kind = "PUNCTUATION"
    /\ input[3].txt = <<COMPOSITE_HYPHEN>>

\* 'og' or 'eda' follows the composite hyphen
IsOg(t) == t.kind = "WORD" /\ t.txt \in { <<"o", "g">>, <<"e", "eth", "a">> }

\* WORD A, composite hyphen, 'og'/'eda', WORD B
CompositePairSentence(input) ==
    /\ CompositeSentence(input)
    /\ Len(input) >= 5
    /\ IsOg(input[4])
    /\ input[5].kind = "WORD"

\* the word after the hyphen is fused with the word before it: an adjective
\* prefix, or a composite the lexicon holds
FusionApplies(input) ==
    /\ input[4].kind = "WORD"
    /\ \/ Lower(input[2].txt) \in ADJECTIVE_PREFIXES
       \/ InTable(BIN_Db_forms, input[2].txt \o <<"-">> \o input[4].txt)

\* neither a pair nor a fusion: the hyphen is unwound
CompositeUnwound(input) ==
    /\ CompositeSentence(input)
    /\ IF IsOg(input[4]) THEN Len(input) >= 5 /\ input[5].kind # "WORD"
       ELSE ~FusionApplies(input)

\* the texts of the tokens
TextsOf(toks) == [i \in DOMAIN toks |-> toks[i].txt]

\* C31: WORD A, composite hyphen, 'og'/'eda', WORD B is emitted as one WORD
\* 'A- og B' that carries exactly the meanings of B; where the hyphen is
\* unwound the output is A, a normal hyphen and the following tokens, each
\* once and in the order of the input.
C31_CompositeHyphen ==
    p1_pc \in {"done", "raised"} =>
        /\ CompositePairSentence(p1_input) =>
              /\ Len(p1_out) >= 2
              /\ p1_out[2].kind = "WORD"
              /\ p1_out[2].txt = p1_input[2].txt \o <<"-", " ">> \o p1_input[4].txt
                                     \o <<" ">> \o p1_input[5].txt
              /\ p1_out[2].val = p1_input[5].val
        /\ CompositeUnwound(p1_input) =>
              /\ Len(p1_out) >= 3
              /\ p1_out[2] = p1_input[2]
              /\ p1_out[3].kind = "PUNCTUATION"
              /\ p1_out[3].txt = <<HYPHEN>>
              /\ p1_pc = "done" =>
                    Join(TextsOf(SubSeq(p1_out, 4, Len(p1_out))))
                        = Join(TextsOf(SubSeq(p1_input, 4, Len(p1_input))))

\* the words a token stands for: the words of its text, or the token itself
\* where it has no text
RECURSIVE WordsOf(_)
WordsOf(toks) ==
    IF toks = <<>> THEN <<>>
    ELSE (IF Head(toks).txt = NoneTxt THEN <<NoneTxt>> ELSE Split(Head(toks).txt, " "))
         \o WordsOf(Tail(toks))

\* the token is the synthetic WORD of a phrase of the dictionary
IsPhraseWord(t) ==
    /\ t.kind = "WORD"
    /\ \E ix \in 0..3 :
           /\ Lower(t.txt) = StaticPhrases_text(ix)
           /\ t.val = PyList(StaticPhrases_get_meaning(ix))

\* C32: parse_static_phrases raises no exception and yields only tokens; each
\* token of the input is accounted for once and in the order of the input,
\* passed through unchanged or as one of the words of the synthetic WORD of a
\* matched phrase, also where a word that continues a partial match is itself
\* a single-word phrase.
C32_StaticPhrasesAccounted ==
    sp_pc \in {"done", "raised"} =>
        /\ sp_pc = "done"
        /\ \A i \in 1..Len(sp_out) :
               /\ sp_out[i] # ListItem
               /\ IsPhraseWord(sp_out[i]) \/ \E j \in 1..Len(sp_input) : sp_input[j] = sp_out[i]
        /\ WordsOf(sp_out) = WordsOf(sp_input)

\* the token is one of the delimiters S_BEGIN, S_END, P_BEGIN and P_END
IsDelimiter(t) == t.kind \in {"S_BEGIN", "S_END", "P_BEGIN", "P_END"}

\* the token is a PUNCTUATION that ends a sentence
EndsSentence(t) == t.kind = "PUNCTUATION" /\ t.txt \in END_OF_SENTENCE

\* the token is a PUNCTUATION that may follow the end of a sentence
IsFinisher(t) == t.kind = "PUNCTUATION" /\ t.txt \in SENTENCE_FINISHERS

\* the first position after i that holds no sentence finisher
RECURSIVE AfterFinishers(_, _)
AfterFinishers(s, i) ==
    IF i + 1 <= Len(s) /\ IsFinisher(s[i + 1]) THEN AfterFinishers(s, i + 1) ELSE i + 1

\* C33: in the output of parse_sentences every S_BEGIN stands immediately
\* before the first token of its sentence that is not a delimiter, every such
\* first token has its S_BEGIN, and every sentence-ending PUNCTUATION is
\* followed by the maximal run of sentence finishers and then at once by
\* S_END.
C33_SentenceDelimitersPlaced ==
    ps_pc = "done" =>
        \A i \in 1..Len(ps_out) :
            /\ ps_out[i].kind = "S_BEGIN" =>
                  i < Len(ps_out) /\ ~IsDelimiter(ps_out[i + 1])
            /\ (~IsDelimiter(ps_out[i]) /\ (i = 1 \/ IsDelimiter(ps_out[i - 1]))) =>
                  i > 1 /\ ps_out[i - 1].kind = "S_BEGIN"
            /\ EndsSentence(ps_out[i]) =>
                  /\ AfterFinishers(ps_out, i) <= Len(ps_out)
                  /\ ps_out[AfterFinishers(ps_out, i)].kind = "S_END"

(***************************************************************************)
(* Claims about the times of parse_particles                               *)
(***************************************************************************)
\* v is an int n with lo <= n < hi
IntInRange(v, lo, hi) == v.t = "int" /\ lo <= v.n /\ v.n < hi

\* C34: every TIME that parse_particles yields, one made of 'klukkan' or
\* 'kl.' and a NUMBER included, carries three integers h, m and s with
\* 0 <= h < 24, 0 <= m < 60 and 0 <= s < 60.
C34_TimesInRange ==
    \A i \in 1..Len(pp_out) :
        pp_out[i].kind = "TIME" =>
            /\ IntInRange(pp_out[i].val.l[1], 0, 24)
            /\ IntInRange(pp_out[i].val.l[2], 0, 60)
            /\ IntInRange(pp_out[i].val.l[3], 0, 60)

(***************************************************************************)
(* Claims about the candidates of a person name                            *)
(***************************************************************************)
\* the candidates P extended by the given names or the middle abbreviation of
\* token t and by its surnames: a candidate is kept with every compatible
\* candidate of t; and by t as an unknown surname, a capitalised word that has
\* no candidates of its own
ExtendedByGiven(P, t, at_sentence_start) ==
    { PersonName(NamePlus(pr[1], pr[2].name.s), pr[1].gender, pr[1].case) :
          pr \in { pr \in P \X { given_names_or_middle_abbrev(t, at_sentence_start)[i] :
                         i \in DOMAIN given_names_or_middle_abbrev(t, at_sentence_start) } :
                      compatible(pr[1], pr[2]) } }

ExtendedBySurname(P, t, at_sentence_start) ==
    { PersonName(NamePlus(pr[1], pr[2].name.s), pr[2].gender, pr[2].case) :
          pr \in { pr \in P \X { surnames(t, at_sentence_start)[i] :
                                    i \in DOMAIN surnames(t, at_sentence_start) } :
                      compatible(pr[1], pr[2]) } }

ExtendedByUnknown(P, t, at_sentence_start) ==
    IF unknown_surname(t) /\ given_names_or_middle_abbrev(t, at_sentence_start) = <<>>
    THEN { PersonName(NamePlus(p, t.txt), p.gender, p.case) : p \in P }
    ELSE {}

\* the sets of candidates that the tokens taken can lead to from P, each token
\* extending at least one candidate
RECURSIVE Extensions(_, _, _)
Extensions(P, taken, at_sentence_start) ==
    IF taken = <<>> THEN { P }
    ELSE UNION { Extensions(Q, Tail(taken), at_sentence_start) :
                    Q \in { ExtendedByGiven(P, Head(taken), at_sentence_start),
                            ExtendedBySurname(P, Head(taken), at_sentence_start),
                            ExtendedByUnknown(P, Head(taken), at_sentence_start) } \ { {} } }

\* the elements of a list
ElementsOf(s) == { s[i] : i \in DOMAIN s }

\* C35: the list of candidates of an accumulating name is never empty; a
\* given name, middle initial or patronym that follows is taken from the
\* stream only if a pair of a candidate and one of its candidates is
\* compatible, and every candidate kept is a candidate kept before joined
\* with a compatible candidate of the token taken (an unknown surname, a
\* capitalised word without candidates, is joined to every candidate).
C35_CandidatesNeverEmpty ==
    \A i \in DOMAIN nm_log :
        nm_log[i].gn0 # <<>> =>
            /\ Len(nm_log[i].gn) >= 1
            /\ ElementsOf(nm_log[i].gn)
                   \in Extensions(ElementsOf(nm_log[i].gn0), nm_log[i].taken, nm_log[i].flag)

\* the number of tokens of the stream that the first n iterations have used
RECURSIVE UsedBy(_, _)
UsedBy(log, n) == IF n = 0 THEN 0 ELSE UsedBy(log, n - 1) + log[n].used

\* the WORD at the head of iteration i had a given-name candidate and was not
\* made a PERSON: the name was rejected as weak
RejectedAsWeak(log, i) == HasCandidate(log[i]) /\ log[i].emitted.kind # "PERSON"

\* C36: when a name candidate is rejected as weak, the iteration has used no
\* token but the WORD itself: the WORD is emitted as it came from the stream
\* (text, meanings and errors), and the token that followed it in the stream
\* is at the head of the next iteration and, at the end of the stream, the
\* next token emitted.
C36_WeakConsumesNothing ==
    \A i \in DOMAIN nm_log :
        RejectedAsWeak(nm_log, i) =>
            /\ nm_log[i].used = 1
            /\ nm_log[i].emitted = nm_ann[UsedBy(nm_log, i - 1) + 1]
            /\ nm_out[i] = nm_ann[UsedBy(nm_log, i - 1) + 1]
            /\ i < Len(nm_log) => nm_log[i + 1].head = nm_ann[UsedBy(nm_log, i - 1) + 2]
            /\ (i = Len(nm_log) /\ nm_pc = "done") =>
                   nm_out[i + 1] = nm_ann[UsedBy(nm_log, i - 1) + 2]

\* C36 witness: a weak name was rejected where a capitalised word that is
\* neither a compatible name nor an unknown surname follows it, and the stage
\* has emitted both.
C36_Witness ==
    \E i \in DOMAIN nm_log :
        /\ RejectedAsWeak(nm_log, i)
        /\ i < Len(nm_log)
        /\ nm_log[i + 1].head.kind = "WORD"
        /\ nm_out[i + 1] = nm_log[i + 1].head

(***************************************************************************)
(* Claims about disambiguate_phrases                                       *)
(***************************************************************************)
\* the words of phrase ix
AmbigPhraseWords(ix) == IF ix = 0 THEN <<TIL, THESS, AD>> ELSE <<THESS, VEGNA>>

\* position i of the input is word number k of phrase ix, spelled out in full
InPhrase(input, i, ix, k) ==
    /\ k \in 1..Len(AmbigPhraseWords(ix))
    /\ i - k + 1 >= 1
    /\ i - k + Len(AmbigPhraseWords(ix)) <= Len(input)
    /\ \A j \in 1..Len(AmbigPhraseWords(ix)) :
           /\ input[i - k + j].kind = "WORD"
           /\ Lower(input[i - k + j].txt) = AmbigPhraseWords(ix)[j]

\* C37: disambiguate_phrases yields one token for each token of its input, in
\* the order of the input and with the same kind and text; a token differs
\* from its input token only where it is a word of a phrase spelled out in
\* full, and then all its meanings have the category declared for that word,
\* also where the words of an abandoned partial match were still queued when
\* the phrase was completed.
C37_OneTokenPerToken ==
    da_pc = "done" =>
        /\ Len(da_out) = Len(da_input)
        /\ \A i \in 1..Len(da_out) :
               i <= Len(da_input) =>
                   /\ da_out[i].kind = da_input[i].kind
                   /\ da_out[i].txt = da_input[i].txt
                   /\ \/ da_out[i] = da_input[i]
                      \/ \E ix \in 0..1 : \E k \in 1..3 :
                             /\ InPhrase(da_input, i, ix, k)
                             /\ \A n \in 1..Len(da_out[i].val.l) :
                                    Ordfl(da_out[i].val.l[n]) = AmbigPhrases_get_cats(ix)[k]

\* C38: where recognize_entities pulls a token from upstream its queue is
\* empty exactly when its state is empty, so that the assertions 'assert not
\* tq' and 'assert not newstate' hold; the assertion of token_or_entity never
\* fails; when the stage has finished the queue is empty and every token of
\* the input has been emitted, in the order of the input, as it was or as one
\* of the words of one ENTITY.
C38_QueueTracksState ==
    /\ re_pc = "loop" => (re_tq = <<>> <=> re_state = <<>>)
    /\ \A i \in 1..Len(re_out) : re_out[i] # AssertionFailed
    /\ re_pc = "done" =>
           /\ re_tq = <<>>
           /\ WordsOf(re_out) = WordsOf(re_input)

\* C38 witness: the stage has finished after it queued the words of a name
\* and emitted them as one ENTITY, and after it emitted a queued word
\* unchanged when the name was not completed.
C38_Witness ==
    /\ re_pc = "done"
    /\ re_tq = <<>>
    /\ \E i \in 1..Len(re_out) : re_out[i].kind = "ENTITY" /\ HasChar(re_out[i].txt, " ")
    /\ \E i \in 1..Len(re_out) :
           /\ re_out[i].kind = "WORD"
           /\ re_out[i].txt = <<"S", "o", "n", "y">>

\* the lexemes that start with a digit and are what is left of w after some
\* characters were taken from its front
DigitSuffixes(w) ==
    { SliceFrom(w, k) : k \in { j \in 0..(Len(w) - 1) : w[j + 1] \in DIGITS } }

\* one pass of 'while w' leaves a shorter w, or has replaced a misspelled
\* ordinal by its word, which the next pass takes whole
PassMakesProgress ==
    pt_pc = "while" =>
        \/ Len(pt_w') < Len(pt_w)
        \/ /\ \E d \in DigitSuffixes(pt_w) : InOrdinalErrors(d)
           /\ isalpha(pt_w')
           /\ pt_pc' = "while"

\* C39: parse_tokens terminates on every text: every pass of the loop over a
\* lexeme removes at least one character of it or rewrites it to a form that
\* a later pass consumes, every lexeme is taken from the list once, and the
\* generator is in one of its loops until it is exhausted; parse_digits
\* consumes at least one and at most len(w) characters.
C39_TokensExhausted ==
    /\ [][PassMakesProgress]_pt_vars
    /\ [][pt_pc = "for" => Len(pt_rough') < Len(pt_rough) \/ pt_pc' = "done"]_pt_vars
    /\ [](pt_pc = "while" =>
             \A d \in DigitSuffixes(pt_w) : parse_digits(d).eaten \in 1..Len(d))
    /\ [](pt_pc \in {"for", "while", "done"})

\* C40: annotate emits one token per token of its input, in the order of
\* the input; a token that is not a WORD, and a WORD that has meanings, is
\* emitted as it is; a WORD without meanings is emitted as a WORD with the
\* error list it had.
C40_AnnotateKeepsErrors ==
    (pe_pc = "annotated" /\ pe_static.raised = "" /\ pe_ann.raised = "") =>
        /\ Len(pe_ann.out) = Len(pe_static.out)
        /\ \A i \in 1..Len(pe_static.out) :
              i <= Len(pe_ann.out) =>
                 IF pe_static.out[i].kind = "WORD" /\ pe_static.out[i].val = PyNone
                 THEN /\ pe_ann.out[i].kind = "WORD"
                      /\ pe_ann.out[i].val # PyNone
                      /\ pe_ann.out[i].error = pe_static.out[i].error
                 ELSE pe_ann.out[i] = pe_static.out[i]
=============================================================================
